---------------------------- MODULE Spec2Model ----------------------------
(***************************************************************************)
(* Order synchronisation of the Kaspi order bot: the periodic sync pass    *)
(* (TelegramBot.check_new_orders -> OrderService.get_new_orders), the      *)
(* Store (database/models.py) and the user-triggered lifecycle actions     *)
(* (accept, create waybill, cancel, bulk clear).                           *)
(*                                                                         *)
(* One step of the sync pass is one synchronous segment of the coroutine:  *)
(* the code between two awaits that let other coroutines run.  Handlers of *)
(* user updates run one at a time; a handler is one step, except where it  *)
(* looks at the Store, awaits a download and then writes the Store.        *)
(***************************************************************************)
EXTENDS Integers, Sequences, FiniteSets, TLC

VARIABLES
    remote,      \* the marketplace: code -> attributes of the order
    store,       \* the orders table: code -> row (a partial function)
    pc,          \* where the sync pass is: "idle", "assemble", "notify"
    listing,     \* orders_data of the pass in progress
    idx,         \* pc = "assemble": index in listing; pc = "notify": index in ToNotify
    new_orders,  \* the batch: new_orders of get_new_orders, then of check_new_orders
    acceptBtn,   \* codes with a live "accept_order" button in the chat
    batched,     \* codes that were placed in a notification batch
    chat,        \* codes of the orders whose notification reached the chat
    skipped,     \* the listed orders the step just taken skipped as already notified
    ret,         \* what the call made by the step just taken returned: the call (op),
                 \* its order, the value, label URL, state and count it returned, what
                 \* became of its gateway request (gw), the requests it issued and
                 \* the label queries among them, the user whose update it served
    inflight,    \* the label download the handler of a user update awaits
    pending_confirmations,  \* TelegramBot.pending_confirmations: user -> action
    clearPrompt, \* the chat's latest prompt of /clear_db: "none", "asked" (its buttons
                 \* are live), "confirmed", "cancelled"
    frame,       \* the arguments and locals of the call in progress, in the
                 \* specifications that follow one operation on its own
    passes, clears, faults, glitches, changes   \* budgets used

vars == <<remote, store, pc, listing, idx, new_orders, acceptBtn, batched, skipped, ret,
          inflight, chat, pending_confirmations, clearPrompt, frame,
          passes, clears, faults, glitches, changes>>

---------------------------------------------------------------------------
(* Bounds of the model *)

MaxPasses == 2          \* sync passes started
MaxClears == 1          \* bulk clears
MaxStoreFaults == 2     \* Store writes whose commit raises
MaxGlitches == 1        \* failed description, warehouse or PDF sub-calls
MaxRemoteChanges == 1   \* changes made at the marketplace by others
MaxEvents == 2          \* all of the four above together

---------------------------------------------------------------------------
(* Data *)

Codes == {"c1", "c2"}

Statuses == {"APPROVED_BY_BANK", "ACCEPTED_BY_MERCHANT", "ASSEMBLE", "PICKUP",
             "COMPLETED", "CANCELLED", "CANCELLING", "RETURNED"}

States == {"NEW", "ARCHIVE"}

\* the statuses the marketplace moves an order to by itself: one of each kind the
\* program tells apart (COMPLETED and CANCELLING are handled as CANCELLED everywhere).
\* RETURNED stands for the statuses the program has in none of its lists; an
\* order has it from the start in SpecReturned.
RemoteStatuses == {"APPROVED_BY_BANK", "ACCEPTED_BY_MERCHANT", "ASSEMBLE", "PICKUP",
                   "CANCELLED"}

None == "None"

\* the marketplace id of an order is the base64 text of its code
IdOf(c) == IF c = "c1" THEN "YzE=" ELSE "YzI="

b64decode(id) == IF id = "YzE=" THEN "c1" ELSE IF id = "YzI=" THEN "c2" ELSE "binascii.Error"

UrlOf(c) == IF c = "c1" THEN "https://kaspi.kz/waybill/c1" ELSE "https://kaspi.kz/waybill/c2"

PdfBytes == "%PDF-1.4"

b64encode(bytes) == IF bytes = "%PDF-1.4" THEN "JVBERi0xLjQ=" ELSE "PGh0bWw+"

\* the entries (line items) the marketplace holds for an order
EntriesOf(c) == IF c = "c1" THEN <<"e1", "e2">> ELSE <<>>

PlaceholderWarehouse == "not specified"

Warehouse == "warehouse 1"

CancelReasons == {"BUYER_CANCELLATION_BY_MERCHANT", "BUYER_NOT_REACHABLE", "MERCHANT_OUT_OF_STOCK"}

---------------------------------------------------------------------------
(* The Store: database/models.py *)

EmptyStore == [x \in {} |-> None]

Put(st, code, row) == [x \in (DOMAIN st) \cup {code} |-> IF x = code THEN row ELSE st[x]]

ItemsNull == [null |-> TRUE, text |-> <<>>]

\* JSON text is a sequence of tokens: punctuation, string literals, numbers
Punct(c) == [k |-> "punct", s |-> c]
IsPunct(tok, c) == tok.k = "punct" /\ tok.s = c
StringToken(v) == [k |-> "string", s |-> v]
NumberToken(v) == [k |-> "number", n |-> v]

\* the keys of a line item in the order its dict is built; the keys that hold
\* numbers.  "entry" stands for what the item takes over from the entry of the
\* marketplace.
ItemKeys == <<"entry", "name", "description", "quantity", "price", "total_price">>
NumberKeys == {"quantity", "price", "total_price"}

ScalarToken(key, v) == IF key \in NumberKeys THEN NumberToken(v) ELSE StringToken(v)

\* variant of the encoder that leaves out the members whose string is empty
RECURSIVE DumpMembers_skips(_, _, _, _)
DumpMembers_skips(item, keys, i, first) ==
    IF i > Len(keys) THEN <<>>
    ELSE IF keys[i] \notin NumberKeys /\ item[keys[i]] = ""
    THEN DumpMembers_skips(item, keys, i + 1, first)
    ELSE (IF first THEN <<>> ELSE <<Punct(",")>>)
         \o <<StringToken(keys[i]), Punct(":"), ScalarToken(keys[i], item[keys[i]])>>
         \o DumpMembers_skips(item, keys, i + 1, FALSE)

\* json.dumps of the members of one dict, from the i-th key on
RECURSIVE DumpMembers(_, _, _, _)
DumpMembers(item, keys, i, first) ==
    IF i > Len(keys) THEN <<>>
    ELSE (IF first THEN <<>> ELSE <<Punct(",")>>)
         \o <<StringToken(keys[i]), Punct(":"), ScalarToken(keys[i], item[keys[i]])>>
         \o DumpMembers(item, keys, i + 1, FALSE)

\* json.dumps of the dicts of a list, from the i-th on
RECURSIVE DumpElements(_, _)
DumpElements(value, i) ==
    IF i > Len(value) THEN <<>>
    ELSE (IF i = 1 THEN <<>> ELSE <<Punct(",")>>)
         \o <<Punct("{")>>
         \o DumpMembers(value[i], SelectSeq(ItemKeys, LAMBDA key : key \in DOMAIN value[i]),
                        1, TRUE)
         \o <<Punct("}")>>
         \o DumpElements(value, i + 1)

\* json.dumps(value, ensure_ascii=False) of a list of dicts
json_dumps(value) == <<Punct("[")>> \o DumpElements(value, 1) \o <<Punct("]")>>

ParseError == [ok |-> FALSE, val |-> <<>>, next |-> 0]

\* json.loads: the members of a dict from token i on, up to the closing brace
RECURSIVE ParseMembers(_, _, _)
ParseMembers(toks, i, obj) ==
    IF /\ i + 3 <= Len(toks)
       /\ toks[i].k = "string"
       /\ IsPunct(toks[i + 1], ":")
       /\ toks[i + 2].k \in {"string", "number"}
    THEN LET key == toks[i].s
             v   == IF toks[i + 2].k = "string" THEN toks[i + 2].s ELSE toks[i + 2].n
             o2  == [x \in (DOMAIN obj) \cup {key} |-> IF x = key THEN v ELSE obj[x]]
         IN  IF IsPunct(toks[i + 3], ",") THEN ParseMembers(toks, i + 4, o2)
             ELSE IF IsPunct(toks[i + 3], "}") THEN [ok |-> TRUE, val |-> o2, next |-> i + 4]
             ELSE ParseError
    ELSE ParseError

\* json.loads: one dict that starts at token i
ParseObject(toks, i) ==
    IF i + 1 <= Len(toks) /\ IsPunct(toks[i], "{")
    THEN IF IsPunct(toks[i + 1], "}")
         THEN [ok |-> TRUE, val |-> [x \in {} |-> ""], next |-> i + 2]
         ELSE ParseMembers(toks, i + 1, [x \in {} |-> ""])
    ELSE ParseError

\* json.loads: the dicts of a list from token i on, up to the closing bracket
RECURSIVE ParseElements(_, _, _)
ParseElements(toks, i, acc) ==
    LET o == ParseObject(toks, i)
    IN  IF ~o.ok \/ o.next > Len(toks) THEN ParseError
        ELSE IF IsPunct(toks[o.next], ",")
        THEN ParseElements(toks, o.next + 1, Append(acc, o.val))
        ELSE IF IsPunct(toks[o.next], "]") /\ o.next = Len(toks)
        THEN [ok |-> TRUE, val |-> Append(acc, o.val), next |-> o.next + 1]
        ELSE ParseError

\* json.loads of a text that holds a list of dicts; ok = FALSE when it raises
json_loads(text) ==
    IF Len(text) >= 2 /\ IsPunct(text[1], "[")
    THEN IF IsPunct(text[2], "]")
         THEN (IF Len(text) = 2 THEN [ok |-> TRUE, val |-> <<>>, next |-> 3]
               ELSE ParseError)
         ELSE ParseElements(text, 2, <<>>)
    ELSE ParseError

\* Order.items setter: json.dumps of a non-empty list, NULL otherwise
items_setter(row, value) ==
    IF value # <<>>
    THEN [row EXCEPT !.items_json = [null |-> FALSE, text |-> json_dumps(value)]]
    ELSE [row EXCEPT !.items_json = ItemsNull]

\* Order.items getter: [] for NULL, for the empty text and for a text that
\* json.loads rejects
items_getter(row) ==
    IF row.items_json.null \/ row.items_json.text = <<>> THEN <<>>
    ELSE LET r == json_loads(row.items_json.text)
         IN  IF r.ok THEN r.val ELSE <<>>

\* Order.waybill_pdf_bytes setter
waybill_pdf_bytes_setter(row, value) ==
    IF value # None THEN [row EXCEPT !.waybill_pdf = b64encode(value)]
    ELSE [row EXCEPT !.waybill_pdf = None]

\* a variant of is_order_notified that never finds the de-duplication marker
is_order_notified_never(st, code) == FALSE

is_order_notified(st, code) == code \in DOMAIN st /\ st[code].notified_at # None

\* a variant of NewRow in which the insert lands in part: the row is there with its
\* id and status while its other columns are still NULL
NewRow_torn(data) ==
    [id |-> data.id, status |-> data.status, state |-> None,
     warehouse_name |-> None, waybill_url |-> None,
     notified_at |-> None, waybill_pdf |-> None, items_json |-> ItemsNull]

\* Order(**order_data): the columns not given are NULL
NewRow(data) ==
    [id |-> data.id, status |-> data.status, state |-> data.state,
     warehouse_name |-> data.warehouse_name, waybill_url |-> data.waybill_url,
     notified_at |-> None, waybill_pdf |-> None, items_json |-> ItemsNull]

\* a variant of UpdatedRow that also writes notified_at: the saved data carry no
\* notification time, so the update resets it to NULL
UpdatedRow_resets_notified(row, data) ==
    [row EXCEPT !.id = data.id, !.status = data.status, !.state = data.state,
                !.warehouse_name = data.warehouse_name, !.waybill_url = data.waybill_url,
                !.notified_at = None]

\* the setattr loop over the columns of order_data
UpdatedRow(row, data) ==
    [row EXCEPT !.id = data.id, !.status = data.status, !.state = data.state,
                !.warehouse_name = data.warehouse_name, !.waybill_url = data.waybill_url]

\* Order.id is the primary key of the table: the commit of a row whose id another
\* row (of another code) holds raises IntegrityError
PrimaryKeyTaken(st, data) == \E x \in (DOMAIN st) \ {data.code} : st[x].id = data.id

\* Database.save_order; fault: the commit raises, the session is rolled back, the
\* exception is raised again
save_order(st, data, fault) ==
    LET base == IF data.code \in DOMAIN st THEN UpdatedRow(st[data.code], data)
                ELSE NewRow(data)
        r1 == IF data.items # <<>> THEN items_setter(base, data.items) ELSE base
        r2 == IF data.waybill_pdf_data # None
              THEN waybill_pdf_bytes_setter(r1, data.waybill_pdf_data) ELSE r1
    IN  IF fault \/ PrimaryKeyTaken(st, data) THEN [store |-> st, raised |-> TRUE]
        ELSE [store |-> Put(st, data.code, r2), raised |-> FALSE]

\* Database.mark_as_notified; the timestamp is utcnow(), abstracted to "utcnow"
mark_as_notified(st, code, fault) ==
    IF code \notin DOMAIN st THEN [store |-> st, raised |-> FALSE]
    ELSE IF fault THEN [store |-> st, raised |-> TRUE]
    ELSE [store |-> [st EXCEPT ![code].notified_at = "utcnow"], raised |-> FALSE]

\* a variant of update_order_status that inserts a row when the code has none
update_order_status_inserts(st, code, new_status, fault) ==
    IF fault THEN [store |-> st, raised |-> TRUE]
    ELSE IF code \notin DOMAIN st
    THEN [store |-> Put(st, code, NewRow_torn([id |-> IdOf(code), status |-> new_status])),
          raised |-> FALSE]
    ELSE [store |-> [st EXCEPT ![code].status = new_status], raised |-> FALSE]

\* Database.update_order_status
update_order_status(st, code, new_status, fault) ==
    IF code \notin DOMAIN st THEN [store |-> st, raised |-> FALSE]
    ELSE IF fault THEN [store |-> st, raised |-> TRUE]
    ELSE [store |-> [st EXCEPT ![code].status = new_status], raised |-> FALSE]

\* Database.update_order_waybill
update_order_waybill(st, code, url, pdf, fault) ==
    IF code \notin DOMAIN st THEN [store |-> st, raised |-> FALSE]
    ELSE IF fault THEN [store |-> st, raised |-> TRUE]
    ELSE LET r1 == [st[code] EXCEPT !.waybill_url = url]
             r2 == IF pdf # None THEN waybill_pdf_bytes_setter(r1, pdf) ELSE r1
         IN  [store |-> [st EXCEPT ![code] = r2], raised |-> FALSE]

\* Order.waybill_pdf_bytes getter
waybill_pdf_bytes_getter(row) ==
    IF row.waybill_pdf = None THEN None
    ELSE IF row.waybill_pdf = "JVBERi0xLjQ=" THEN "%PDF-1.4" ELSE "<html>"

\* Database.get_order_waybill_pdf
get_order_waybill_pdf(st, code) ==
    IF code \in DOMAIN st THEN waybill_pdf_bytes_getter(st[code]) ELSE None

\* a variant of clear_all_orders that counts the rows after it deleted them and that
\* keeps the deletion when the commit raises
clear_all_orders_counts_after(st, fault) ==
    [store |-> EmptyStore, count |-> 0, raised |-> fault]

\* a variant of clear_all_orders that deletes only the rows that are not marked as
\* notified
clear_all_orders_keeps_marked(st, fault) ==
    IF fault THEN [store |-> st, count |-> 0, raised |-> TRUE]
    ELSE [store |-> [c \in {d \in DOMAIN st : st[d].notified_at # None} |-> st[c]],
          count |-> Cardinality({d \in DOMAIN st : st[d].notified_at = None}),
          raised |-> FALSE]

\* Database.clear_all_orders
clear_all_orders(st, fault) ==
    IF fault THEN [store |-> st, count |-> 0, raised |-> TRUE]
    ELSE [store |-> EmptyStore, count |-> Cardinality(DOMAIN st), raised |-> FALSE]

---------------------------------------------------------------------------
(* The order service: kaspi/order_service.py *)

CompletedStatuses == {"COMPLETED", "CANCELLED", "CANCELLING"}

\* active_statuses of check_new_orders
ActiveStatuses == {"APPROVED_BY_BANK", "ACCEPTED_BY_MERCHANT", "ASSEMBLE", "PICKUP"}

\* one element of response['data'] of get_orders, as the marketplace holds it now
Summary(rem, c) ==
    [id |-> IdOf(c), code |-> c, status |-> rem[c].status, state |-> rem[c].state,
     waybill |-> rem[c].waybill]

\* the sub-calls of _get_full_order_info that may fail without losing the order:
\* i >= 1 the product description of entry i, 0 the warehouse lookup (first entry
\* only), -1 the download of the label PDF (only when the order has a label URL)
GlitchPoints(order) ==
    LET n == Len(EntriesOf(order.code))
    IN  (1..n) \cup (IF n >= 1 THEN {0} ELSE {}) \cup (IF order.waybill # None THEN {-1} ELSE {})

\* a variant of _get_full_order_info that leaves out an item whose description lookup
\* failed and gives up the warehouse and the label when their sub-call failed
_get_full_order_info_drops(order, failed) ==
    LET entries == EntriesOf(order.code)
        kept == SelectSeq([i \in 1..Len(entries) |-> i], LAMBDA i : i \notin failed)
    IN  [id |-> order.id, code |-> order.code, status |-> order.status,
         state |-> order.state,
         items |-> [k \in 1..Len(kept) |->
                       [entry |-> entries[kept[k]], description |-> "name | code"]],
         warehouse_name |-> IF Len(entries) >= 1 THEN Warehouse ELSE PlaceholderWarehouse,
         waybill_url |-> IF order.waybill = None \/ -1 \in failed THEN "" ELSE order.waybill,
         waybill_pdf_data |-> IF order.waybill # None /\ -1 \notin failed
                              THEN PdfBytes ELSE None]

\* _get_full_order_info when get_order_items succeeded; failed: the sub-calls that fail
_get_full_order_info(order, failed) ==
    LET entries == EntriesOf(order.code)
        items == [i \in 1..Len(entries) |->
                     [entry |-> entries[i],
                      description |-> IF i \in failed THEN "" ELSE "name | code"]]
        waybill_url == IF order.waybill = None THEN "" ELSE order.waybill
    IN  [id |-> order.id, code |-> order.code, status |-> order.status,
         state |-> order.state, items |-> items,
         warehouse_name |-> IF Len(entries) >= 1 /\ 0 \notin failed
                            THEN Warehouse ELSE PlaceholderWarehouse,
         waybill_url |-> waybill_url,
         waybill_pdf_data |-> IF waybill_url # "" /\ -1 \notin failed
                              THEN PdfBytes ELSE None]

\* the gateway and download requests _get_full_order_info issues
InfoCalls(order) ==
    LET n == Len(EntriesOf(order.code))
    IN  1 + n + (IF n >= 1 THEN 1 ELSE 0) + (IF order.waybill # None THEN 1 ELSE 0)

\* save_order_to_db: any exception of save_order is logged and swallowed
save_order_to_db(st, order_info, fault) == save_order(st, order_info, fault).store

\* mark_order_notified: any exception of mark_as_notified is logged and swallowed
mark_order_notified(st, code, fault) == mark_as_notified(st, code, fault).store

\* is_completed of get_new_orders
is_completed(order) == order.status \in CompletedStatuses \/ order.state = "ARCHIVE"

\* the loop of get_new_orders from index i on: the first order that is not skipped
RECURSIVE NextUnnotified(_, _, _)
NextUnnotified(st, orders_data, i) ==
    IF i > Len(orders_data) THEN i
    ELSE IF is_order_notified(st, orders_data[i].code)
         THEN NextUnnotified(st, orders_data, i + 1)
         ELSE i

\* check_new_orders: save and mark every order of the batch again; sf, mf: the
\* indices whose save, mark fails
RECURSIVE SaveAll(_, _, _, _, _)
SaveAll(st, batch, k, sf, mf) ==
    IF k > Len(batch) THEN st
    ELSE SaveAll(mark_order_notified(save_order_to_db(st, batch[k], k \in sf),
                                     batch[k].code, k \in mf),
                 batch, k + 1, sf, mf)

InActiveStatus(order) == order.status \in ActiveStatuses

\* a variant of ToNotify that sends a notification for every order of the batch
ToNotify_all(batch) == batch

\* orders_to_notify of check_new_orders
ToNotify(batch) == SelectSeq(batch, InActiveStatus)

\* the parameters of KaspiAPIClient.change_order_status (api_client.py)
change_order_status_params == {"order_id", "status", "number_of_space"}

\* a variant of create_waybill_kwargs: the call made with the parameter names of
\* change_order_status
create_waybill_kwargs_bound == {"order_id", "status", "number_of_space"}

\* the keyword arguments create_waybill calls change_order_status with
create_waybill_kwargs == {"order_code", "status", "number_of_space"}

\* what the marketplace and the Store do to one create_waybill call: the requests
\* that succeed, when the label is ready (1: at the first query, 2: at the second,
\* 0: at neither), whether the PDF download succeeds, the Store write that fails;
\* nothing of it is drawn when the call cannot issue a request
WaybillOutcomes(nf, ng) ==
    IF ~(create_waybill_kwargs \subseteq change_order_status_params)
    THEN {[changeOk |-> TRUE, get1Ok |-> TRUE, get2Ok |-> TRUE, ready |-> 0,
           pdfOk |-> TRUE, fault |-> 0]}
    ELSE
    [changeOk : BOOLEAN, get1Ok : BOOLEAN, get2Ok : BOOLEAN, ready : 0..2,
     pdfOk : IF ng > 0 THEN BOOLEAN ELSE {TRUE},
     fault : IF nf > 0 THEN {0, 1, 2} ELSE {0}]

\* a variant of create_waybill that writes the new status to the Store before the
\* gateway call is made
create_waybill_store_first(st, rem, order_id, o) ==
    LET decoded == b64decode(order_id)
        w == update_order_status(st, decoded, "ASSEMBLE", FALSE)
    IN  [store |-> IF decoded = "binascii.Error" THEN st ELSE w.store, remote |-> rem,
         value |-> "False", url |-> None, requests |-> 0, queries |-> 0]

\* OrderService.create_waybill(order_id, 1); in the result, requests: the
\* change_order_status requests issued, queries: the get_order_by_id requests issued
create_waybill(st, rem, order_id, o) ==
    LET decoded == b64decode(order_id)
        False(r, s, n, q) == [store |-> s, remote |-> r, value |-> "False", url |-> None,
                              requests |-> n, queries |-> q]
    IN  IF decoded = "binascii.Error" THEN False(rem, st, 0, 0)
        \* binding the keyword order_code raises TypeError before any request
        ELSE IF ~(create_waybill_kwargs \subseteq change_order_status_params)
        THEN False(rem, st, 0, 0)
        ELSE IF ~o.changeOk THEN False(rem, st, 1, 0)
        ELSE
        LET rem1 == [rem EXCEPT ![decoded].status = "ASSEMBLE",
                                ![decoded].waybill = IF o.ready >= 1 THEN UrlOf(decoded)
                                                     ELSE rem[decoded].waybill]
            url1 == IF o.ready = 1 THEN UrlOf(decoded) ELSE rem[decoded].waybill
            url  == IF url1 # None THEN url1
                    ELSE IF o.ready = 2 THEN UrlOf(decoded) ELSE None
            q    == IF url1 # None THEN 1 ELSE 2
            pdf  == IF url # None /\ o.pdfOk THEN PdfBytes ELSE None
            w1   == update_order_status(st, decoded, "ASSEMBLE", o.fault = 1)
            w2   == update_order_waybill(w1.store, decoded, url, pdf, o.fault = 2)
        IN  IF ~o.get1Ok THEN False(rem1, st, 1, 1)
            ELSE IF url1 = None /\ ~o.get2Ok THEN False(rem1, st, 1, 2)
            ELSE IF w1.raised THEN False(rem1, st, 1, q)
            ELSE IF url # None /\ w2.raised THEN False(rem1, w1.store, 1, q)
            ELSE [store |-> IF url # None THEN w2.store ELSE w1.store, remote |-> rem1,
                  value |-> "dict", url |-> url, requests |-> 1, queries |-> q]

\* a variant of accept_order that writes the Store before it looks at the outcome of
\* the gateway call
accept_order_store_first(st, rem, code, ok, fault) ==
    LET w == update_order_status(st, code, "ACCEPTED_BY_MERCHANT", fault)
    IN  [store |-> w.store,
         remote |-> IF ok THEN [rem EXCEPT ![code].status = "ACCEPTED_BY_MERCHANT"] ELSE rem,
         value |-> IF ok /\ ~w.raised THEN "True" ELSE "False", requests |-> 1]

\* a variant of accept_order that swallows the failure of the Store update
accept_order_swallows(st, rem, code, ok, fault) ==
    LET w == update_order_status(st, code, "ACCEPTED_BY_MERCHANT", fault)
    IN  IF ~ok THEN [store |-> st, remote |-> rem, value |-> "False", requests |-> 1]
        ELSE [store |-> w.store,
              remote |-> [rem EXCEPT ![code].status = "ACCEPTED_BY_MERCHANT"],
              value |-> "True", requests |-> 1]

\* OrderService.accept_order(order_id, order_code); ok: the gateway request succeeds;
\* requests: the gateway requests issued
accept_order(st, rem, code, ok, fault) ==
    LET w == update_order_status(st, code, "ACCEPTED_BY_MERCHANT", fault)
    IN  IF ~ok THEN [store |-> st, remote |-> rem, value |-> "False", requests |-> 1]
        ELSE [store |-> w.store,
              remote |-> [rem EXCEPT ![code].status = "ACCEPTED_BY_MERCHANT"],
              value |-> IF w.raised THEN "False" ELSE "True", requests |-> 1]

\* check_order_status, from the answer of get_order_by_code to its first await or
\* return: the label URL of the Kaspi delivery is read and the cache is consulted;
\* download: the call goes on to await _download_waybill_pdf(url)
check_order_status_lookup(st, rem, code) ==
    [status |-> rem[code].status, state |-> rem[code].state, url |-> rem[code].kd_waybill,
     download |-> rem[code].kd_waybill # None /\ get_order_waybill_pdf(st, code) = None]

\* a variant of check_order_status_downloaded that records the label URL also when
\* the download failed
check_order_status_keeps_url(st, h, pdf, fault) ==
    LET w == update_order_waybill(st, h.code, h.url, pdf, fault)
    IN  [store |-> w.store, value |-> IF w.raised THEN None ELSE h.status,
         state |-> IF w.raised THEN None ELSE h.state,
         url |-> IF w.raised THEN None ELSE h.url]

\* check_order_status, from the end of the download it awaited (h: what it looked up
\* before, pdf: the bytes downloaded or None) to its return; value: the status
\* returned, or None when the call returns None
check_order_status_downloaded(st, h, pdf, fault) ==
    LET w == IF pdf # None THEN update_order_waybill(st, h.code, h.url, pdf, fault)
             ELSE [store |-> st, raised |-> FALSE]
    IN  [store |-> w.store, value |-> IF w.raised THEN None ELSE h.status,
         state |-> IF w.raised THEN None ELSE h.state,
         url |-> IF w.raised THEN None ELSE h.url]

\* OrderService.clear_database: the count, or the exception, of clear_all_orders
clear_database(st, fault) == clear_all_orders(st, fault)

\* the methods class OrderService defines
OrderServiceMethods ==
    {"_format_timestamp", "_get_delivery_type_text", "_download_waybill_pdf",
     "get_new_orders", "_get_full_order_info", "save_order_to_db", "mark_order_notified",
     "get_active_orders", "accept_order", "create_waybill", "check_order_status",
     "clear_database"}

---------------------------------------------------------------------------
(* The bot: bot/telegram_bot.py *)

\* Database.get_active_orders, for one code
IsActiveRow(st, c) ==
    /\ c \in DOMAIN st
    /\ st[c].status \in {"APPROVED_BY_BANK", "ACCEPTED_BY_MERCHANT", "ASSEMBLE"}
    /\ st[c].state \in {"NEW", "PICKUP", "DELIVERY", "KASPI_DELIVERY"}

\* a variant of handle_create_waybill that does not refuse an order the merchant
\* has not accepted yet
handle_create_waybill_unaccepted(rem, c) ==
    /\ rem[c].kd_waybill = None
    /\ rem[c].status # "ASSEMBLE"
    /\ rem[c].status \notin {"COMPLETED", "CANCELLED", "CANCELLING"}

\* handle_create_waybill reaches its create_waybill call: check_order_status found
\* the order, the label is not formed yet and the order is accepted and not finished
handle_create_waybill_proceeds(rem, c) ==
    /\ rem[c].kd_waybill = None
    /\ rem[c].status # "ASSEMBLE"
    /\ rem[c].status # "APPROVED_BY_BANK"
    /\ rem[c].status \notin {"COMPLETED", "CANCELLED", "CANCELLING"}

\* download_and_send_waybill, from the end of the download it awaited: the bytes are
\* written to the Store and sent to the chat; any exception is caught and reported
download_and_send_waybill(st, code, url, pdf, fault) ==
    LET w == IF pdf # None THEN update_order_waybill(st, code, url, pdf, fault)
             ELSE [store |-> st, raised |-> FALSE]
    IN  [store |-> w.store, value |-> IF pdf # None /\ ~w.raised THEN "sent" ELSE "failed"]

\* handle_cancel_order: self.order_service.cancel_order is looked up, which raises
\* AttributeError when OrderService has no such method; the handler catches it and
\* reports the error. No request is issued.
handle_cancel_order(rem, c, reason) ==
    [remote |-> rem,
     value |-> IF "cancel_order" \in OrderServiceMethods THEN "called" ELSE "AttributeError",
     requests |-> 0]

---------------------------------------------------------------------------
(* State machine *)

NoRet == [op |-> "none", code |-> None, value |-> None, url |-> None,
          gw |-> "none", requests |-> 0,
          state |-> None, count |-> 0, queries |-> 0, user |-> None]

\* no operation is followed on its own
NoFrame == [op |-> "none"]

\* the users who send updates: admin stands for the ids of admin_ids, user for
\* everybody else
Users == {"admin", "user"}

\* TelegramBot.admin_ids
admin_ids == {"admin"}

\* pending_confirmations.pop(user_id, None)
Pop(pending, u) == [pending EXCEPT ![u] = "none"]

\* no handler awaits a download
NoHandler == [op |-> "none", code |-> None, url |-> None, status |-> None, state |-> None]

\* TelegramBot.__init__: no confirmation is pending; the chat holds no prompt
\* the two orders of the marketplace when the bot starts
InitRemote ==
    [c \in Codes |->
        [status |-> IF c = "c1" THEN "APPROVED_BY_BANK" ELSE "ACCEPTED_BY_MERCHANT",
         state |-> "NEW", waybill |-> None, kd_waybill |-> None]]

InitDialogue ==
    /\ pending_confirmations = [u \in Users |-> "none"]
    /\ clearPrompt = "none"

Init ==
    /\ InitDialogue
    /\ frame = NoFrame
    /\ remote = InitRemote
    /\ store = EmptyStore
    /\ pc = "idle"
    /\ listing = <<>>
    /\ idx = 0
    /\ new_orders = <<>>
    /\ acceptBtn = {}
    /\ batched = {}
    /\ chat = {}
    /\ skipped = {}
    /\ ret = NoRet
    /\ inflight = NoHandler
    /\ passes = 0 /\ clears = 0 /\ faults = 0 /\ glitches = 0 /\ changes = 0

Min(a, b) == IF a <= b THEN a ELSE b

\* the disturbances (Store faults, failed sub-calls, bulk clears, changes at the
\* marketplace) still allowed
EventsLeft == MaxEvents - (clears + faults + glitches + changes)

\* the Store faults still allowed
FaultsLeft == Min(MaxStoreFaults - faults, EventsLeft)

GlitchesLeft == Min(MaxGlitches - glitches, EventsLeft)

FaultChoices == IF FaultsLeft > 0 THEN BOOLEAN ELSE {FALSE}

\* no call has just returned: the step taken last has been observed
Quiet == ret = NoRet /\ skipped = {}

\* what a get_orders response may list: any orders of the marketplace, in any order
Listings ==
    {<<>>} \cup {<<Summary(remote, c)>> : c \in Codes}
           \cup {<<Summary(remote, p[1]), Summary(remote, p[2])>> :
                   p \in {q \in Codes \X Codes : q[1] # q[2]}}

\* get_new_orders goes on at index i of orders_data with Store st and batch nb,
\* having used nf Store faults: it skips the notified orders and awaits the
\* information of the next one, or returns nb to check_new_orders, which saves and
\* marks the whole batch again and then sends the notifications
Proceed(orders_data, st, nb, i, nf) ==
    LET j == NextUnnotified(st, orders_data, i)
    IN  /\ skipped' = {orders_data[k] : k \in i..(j - 1)}
        /\ new_orders' = nb
        /\ IF j <= Len(orders_data)
           THEN /\ pc' = "assemble"
                /\ idx' = j
                /\ listing' = orders_data
                /\ store' = st
                /\ faults' = nf
           ELSE \E sf \in SUBSET (1..Len(nb)), mf \in SUBSET (1..Len(nb)) :
                /\ Cardinality(sf) + Cardinality(mf)
                       <= Min(MaxStoreFaults - nf,
                              MaxEvents - (clears + nf + glitches' + changes))
                /\ store' = SaveAll(st, nb, 1, sf, mf)
                /\ faults' = nf + Cardinality(sf) + Cardinality(mf)
                /\ listing' = <<>>
                /\ IF ToNotify(nb) = <<>>
                   THEN pc' = "idle" /\ idx' = 0
                   ELSE pc' = "notify" /\ idx' = 1

\* a variant of SyncList in which a failed listing call does not end the pass: the
\* listing is requested once more and the pass goes on with what the retry returns
SyncList_retries ==
    /\ Quiet
    /\ UNCHANGED <<inflight, chat>>
    /\ UNCHANGED <<pending_confirmations, clearPrompt, frame>>
    /\ pc = "idle"
    /\ passes < MaxPasses
    /\ passes' = passes + 1
    /\ UNCHANGED <<remote, acceptBtn, batched, clears, glitches, changes>>
    /\ \E ok \in BOOLEAN, resp \in Listings :
        /\ Proceed(resp, store, <<>>, 1, faults)
        /\ ret' = IF ok THEN NoRet
                  ELSE [op |-> "get_orders", code |-> None, value |-> "raised",
                        url |-> None, gw |-> "failed", requests |-> 2,
                        state |-> None, count |-> 0, queries |-> 0, user |-> None]

\* check_new_orders starts: get_new_orders calls get_orders
SyncList ==
    /\ Quiet
    /\ UNCHANGED <<inflight, chat>>
    /\ UNCHANGED <<pending_confirmations, clearPrompt, frame>>
    /\ pc = "idle"
    /\ passes < MaxPasses
    /\ passes' = passes + 1
    /\ UNCHANGED <<remote, acceptBtn, batched, clears, glitches, changes>>
    /\ \E ok \in BOOLEAN, resp \in Listings :
        IF ok
        THEN /\ Proceed(resp, store, <<>>, 1, faults)
             /\ ret' = NoRet
        ELSE \* get_orders raised: get_new_orders returns []
             /\ resp = <<>>
             /\ ret' = [op |-> "get_orders", code |-> None, value |-> "raised",
                        url |-> None, gw |-> "failed", requests |-> 1,
                        state |-> None, count |-> 0, queries |-> 0, user |-> None]
             /\ pc' = "idle" /\ idx' = 0 /\ new_orders' = <<>> /\ skipped' = {}
             /\ listing' = <<>>
             /\ UNCHANGED <<store, faults>>

\* the sub-calls that may fail for this order, within the budget
GlitchSets(order) ==
    {g \in SUBSET GlitchPoints(order) : Cardinality(g) <= GlitchesLeft}

\* what _get_full_order_info reports when get_order_items raised
ItemsFailed(order) ==
    [op |-> "get_order_items", code |-> order.code, value |-> "raised", url |-> None,
     gw |-> "failed", requests |-> 1, state |-> None, count |-> 0, queries |-> 0, user |-> None]

\* a variant of AssembleFailed in which a failed item fetch ends get_new_orders: the
\* call returns [] and the rest of the listing is not processed
AssembleFailed_aborts ==
    /\ Quiet
    /\ UNCHANGED <<inflight, chat>>
    /\ UNCHANGED <<pending_confirmations, clearPrompt, frame>>
    /\ pc = "assemble"
    /\ ret' = ItemsFailed(listing[idx])
    /\ pc' = "idle" /\ idx' = 0 /\ listing' = <<>> /\ new_orders' = <<>> /\ skipped' = {}
    /\ UNCHANGED <<remote, store, acceptBtn, batched, passes, clears, faults, glitches,
                   changes>>

\* _get_full_order_info of listing[idx] returns None: get_order_items raised; the
\* order is left out and the loop goes on
AssembleFailed ==
    /\ Quiet
    /\ UNCHANGED <<inflight, chat>>
    /\ UNCHANGED <<pending_confirmations, clearPrompt, frame>>
    /\ pc = "assemble"
    /\ UNCHANGED <<batched, glitches>>
    /\ Proceed(listing, store, new_orders, idx + 1, faults)
    /\ ret' = ItemsFailed(listing[idx])
    /\ UNCHANGED <<remote, acceptBtn, passes, clears, changes>>

\* a variant of AssembleDone that puts the order at the head of the batch
AssembleDone_prepends ==
    /\ Quiet
    /\ UNCHANGED <<inflight, chat>>
    /\ UNCHANGED <<pending_confirmations, clearPrompt, frame>>
    /\ pc = "assemble"
    /\ LET order == listing[idx]
       IN  \E failed \in GlitchSets(order), f1 \in FaultChoices, f2 \in FaultChoices :
                LET order_info == _get_full_order_info(order, failed)
                    s1 == save_order_to_db(store, order_info, f1)
                    m  == mark_as_notified(s1, order.code, f2)
                    nf == faults + (IF f1 THEN 1 ELSE 0) + (IF f2 THEN 1 ELSE 0)
                    nb == IF is_completed(order) THEN new_orders
                          ELSE <<order_info>> \o new_orders
                IN  /\ nf <= MaxStoreFaults
                    /\ Cardinality(failed) + (nf - faults) <= EventsLeft
                    /\ f2 => m.raised
                    /\ glitches' = glitches + Cardinality(failed)
                    /\ batched' = IF is_completed(order) THEN batched
                                  ELSE batched \cup {order.code}
                    /\ Proceed(listing, m.store, nb, idx + 1, nf)
    /\ ret' = NoRet
    /\ UNCHANGED <<remote, acceptBtn, passes, clears, changes>>

\* _get_full_order_info of listing[idx] returns the order's information; the order
\* is saved, marked and put in the batch, and the loop goes on
AssembleDone ==
    /\ Quiet
    /\ UNCHANGED <<inflight, chat>>
    /\ UNCHANGED <<pending_confirmations, clearPrompt, frame>>
    /\ pc = "assemble"
    /\ LET order == listing[idx]
       IN  \E failed \in GlitchSets(order), f1 \in FaultChoices, f2 \in FaultChoices :
                LET order_info == _get_full_order_info(order, failed)
                    s1 == save_order_to_db(store, order_info, f1)
                    m  == mark_as_notified(s1, order.code, f2)
                    nf == faults + (IF f1 THEN 1 ELSE 0) + (IF f2 THEN 1 ELSE 0)
                    nb == IF is_completed(order) THEN new_orders
                          ELSE Append(new_orders, order_info)
                IN  /\ nf <= MaxStoreFaults
                    /\ Cardinality(failed) + (nf - faults) <= EventsLeft
                    /\ f2 => m.raised
                    /\ glitches' = glitches + Cardinality(failed)
                    /\ batched' = IF is_completed(order) THEN batched
                                  ELSE batched \cup {order.code}
                    /\ Proceed(listing, m.store, nb, idx + 1, nf)
    /\ ret' = NoRet
    /\ UNCHANGED <<remote, acceptBtn, passes, clears, changes>>

\* the await of _get_full_order_info in the loop of get_new_orders ends
SyncAssemble == AssembleFailed \/ AssembleDone

\* check_new_orders sends the notification of ToNotify(new_orders)[idx]; sent: the
\* message reached the chat (send_order_notification logs and swallows a failure)
SyncNotify ==
    /\ Quiet
    /\ UNCHANGED inflight
    /\ UNCHANGED <<pending_confirmations, clearPrompt, frame>>
    /\ pc = "notify"
    /\ LET order == ToNotify(new_orders)[idx]
       IN  \E sent \in BOOLEAN :
           /\ acceptBtn' = IF sent /\ order.status = "APPROVED_BY_BANK"
                           THEN acceptBtn \cup {order.code} ELSE acceptBtn
           /\ chat' = IF sent THEN chat \cup {order.code} ELSE chat
    /\ IF idx < Len(ToNotify(new_orders))
       THEN pc' = "notify" /\ idx' = idx + 1 /\ new_orders' = new_orders
       ELSE pc' = "idle" /\ idx' = 0 /\ new_orders' = <<>>
    /\ skipped' = {}
    /\ ret' = NoRet
    /\ UNCHANGED <<remote, store, listing, batched, passes, clears, faults, glitches,
                   changes>>

\* the chat holds, or the /waybills and /cancel_order commands can produce, a button
\* carrying this order's id and code
UserKnows(c) == c \in chat \/ IsActiveRow(store, c)

\* button "accept_order:<id>:<code>": handle_accept_order; the message is edited,
\* which removes the button
Accept(c) ==
    /\ Quiet
    /\ inflight = NoHandler
    /\ UNCHANGED <<inflight, chat>>
    /\ UNCHANGED <<pending_confirmations, clearPrompt, frame>>
    /\ c \in acceptBtn
    /\ acceptBtn' = acceptBtn \ {c}
    /\ \E ok \in BOOLEAN, fault \in FaultChoices :
        LET r == accept_order(store, remote, c, ok, fault)
        IN  /\ fault => (ok /\ c \in DOMAIN store)
            /\ store' = r.store
            /\ remote' = r.remote
            /\ faults' = faults + (IF fault THEN 1 ELSE 0)
            /\ ret' = [op |-> "accept_order", code |-> c, value |-> r.value, url |-> None,
                       gw |-> IF ok THEN "ok" ELSE "failed", requests |-> r.requests,
                       state |-> None, count |-> 0, queries |-> 0, user |-> None]
    /\ skipped' = {}
    /\ UNCHANGED <<pc, listing, idx, new_orders, batched, passes, clears, glitches, changes>>

\* button "confirm_waybill:<id>:<code>" pressed by user u: the confirmation of u
\* is popped, then handle_create_waybill, on the path that calls create_waybill
CreateWaybill(u, c) ==
    /\ Quiet
    /\ inflight = NoHandler
    /\ UNCHANGED <<inflight, chat>>
    /\ pending_confirmations' = Pop(pending_confirmations, u)
    /\ UNCHANGED <<clearPrompt, frame>>
    /\ UserKnows(c)
    /\ handle_create_waybill_proceeds(remote, c)
    /\ \E o \in WaybillOutcomes(FaultsLeft, GlitchesLeft) :
        LET r == create_waybill(store, remote, IdOf(c), o)
        IN  /\ store' = r.store
            /\ remote' = r.remote
            /\ faults' = faults + (IF r.requests > 0 /\ o.fault > 0 THEN 1 ELSE 0)
            /\ glitches' = glitches + (IF r.requests > 0 /\ ~o.pdfOk THEN 1 ELSE 0)
            /\ ret' = [op |-> "create_waybill", code |-> c, value |-> r.value, url |-> r.url,
                       gw |-> IF r.requests = 0 THEN "none"
                              ELSE IF o.changeOk THEN "ok" ELSE "failed",
                       requests |-> r.requests,
                       state |-> None, count |-> 0, queries |-> r.queries, user |-> u]
    /\ skipped' = {}
    /\ UNCHANGED <<pc, listing, idx, new_orders, acceptBtn, batched, passes, clears,
                   changes>>

DownloadChoices == IF GlitchesLeft > 0 THEN BOOLEAN ELSE {TRUE}

\* button "confirm_waybill:<id>:<code>": handle_create_waybill calls
\* check_order_status, on the paths that do not go on to create_waybill; ok: the
\* request of get_order_by_code succeeds
CheckStatus(c) ==
    /\ Quiet
    /\ inflight = NoHandler
    /\ UserKnows(c)
    /\ \E ok \in BOOLEAN :
        LET h == check_order_status_lookup(store, remote, c)
        IN  IF ~ok
            THEN /\ inflight' = NoHandler
                 /\ ret' = [op |-> "check_order_status", code |-> c, value |-> None,
                            url |-> None, gw |-> "failed", requests |-> 1,
                            state |-> None, count |-> 0, queries |-> 0, user |-> None]
            ELSE /\ ~handle_create_waybill_proceeds(remote, c)
                 /\ IF h.download
                    THEN /\ inflight' = [op |-> "check_order_status", code |-> c,
                                         url |-> h.url, status |-> h.status,
                                         state |-> h.state]
                         /\ ret' = NoRet
                    ELSE /\ inflight' = IF h.url # None
                                        THEN [op |-> "handle_create_waybill", code |-> c,
                                              url |-> h.url, status |-> h.status,
                                              state |-> h.state]
                                        ELSE NoHandler
                         /\ ret' = [op |-> "check_order_status", code |-> c,
                                    value |-> h.status, url |-> h.url, gw |-> "ok",
                                    requests |-> 1, state |-> h.state,
                                    count |-> 0, queries |-> 0, user |-> None]
    /\ skipped' = {}
    /\ UNCHANGED chat
    /\ UNCHANGED <<pending_confirmations, clearPrompt, frame>>
    /\ UNCHANGED <<remote, store, pc, listing, idx, new_orders, acceptBtn, batched, passes,
                   clears, faults, glitches, changes>>

\* the download check_order_status awaited ends; pdfOk: it returned a PDF
StatusDownloaded ==
    /\ Quiet
    /\ inflight.op = "check_order_status"
    /\ \E pdfOk \in DownloadChoices, fault \in FaultChoices :
        LET c == inflight.code
            r == check_order_status_downloaded(store, inflight,
                                               IF pdfOk THEN PdfBytes ELSE None, fault)
        IN  /\ fault => (pdfOk /\ c \in DOMAIN store)
            /\ store' = r.store
            /\ faults' = faults + (IF fault THEN 1 ELSE 0)
            /\ glitches' = glitches + (IF pdfOk THEN 0 ELSE 1)
            /\ ret' = [op |-> "check_order_status", code |-> c, value |-> r.value,
                       url |-> r.url, gw |-> "ok", requests |-> 2, state |-> r.state,
                       count |-> 0, queries |-> 0, user |-> None]
            /\ inflight' = IF r.value = None THEN NoHandler
                           ELSE [inflight EXCEPT !.op = "handle_create_waybill"]
    /\ skipped' = {}
    /\ UNCHANGED chat
    /\ UNCHANGED <<pending_confirmations, clearPrompt, frame>>
    /\ UNCHANGED <<remote, pc, listing, idx, new_orders, acceptBtn, batched, passes, clears,
                   changes>>

\* handle_create_waybill, told a label URL by check_order_status, has edited its
\* message and consults the cache: it awaits download_and_send_waybill when the
\* Store holds no PDF of the order
BotCheck ==
    /\ Quiet
    /\ inflight.op = "handle_create_waybill"
    /\ inflight' = IF get_order_waybill_pdf(store, inflight.code) = None
                   THEN [inflight EXCEPT !.op = "download_and_send_waybill"]
                   ELSE NoHandler
    /\ skipped' = {}
    /\ UNCHANGED chat
    /\ UNCHANGED <<pending_confirmations, clearPrompt, frame>>
    /\ ret' = NoRet
    /\ UNCHANGED <<remote, store, pc, listing, idx, new_orders, acceptBtn, batched, passes,
                   clears, faults, glitches, changes>>

\* the download download_and_send_waybill awaited ends; pdfOk: the request succeeded
BotDownloaded ==
    /\ Quiet
    /\ inflight.op = "download_and_send_waybill"
    /\ \E pdfOk \in DownloadChoices, fault \in FaultChoices :
        LET c == inflight.code
            r == download_and_send_waybill(store, c, inflight.url,
                                           IF pdfOk THEN PdfBytes ELSE None, fault)
        IN  /\ fault => (pdfOk /\ c \in DOMAIN store)
            /\ store' = r.store
            /\ faults' = faults + (IF fault THEN 1 ELSE 0)
            /\ glitches' = glitches + (IF pdfOk THEN 0 ELSE 1)
            /\ ret' = [op |-> "download_and_send_waybill", code |-> c, value |-> r.value,
                       url |-> inflight.url, gw |-> "none", requests |-> 1,
                       state |-> None, count |-> 0, queries |-> 0, user |-> None]
    /\ inflight' = NoHandler
    /\ skipped' = {}
    /\ UNCHANGED chat
    /\ UNCHANGED <<pending_confirmations, clearPrompt, frame>>
    /\ UNCHANGED <<remote, pc, listing, idx, new_orders, acceptBtn, batched, passes, clears,
                   changes>>

\* what a handler that calls no service leaves behind: the handler, the user
\* and what the handler answered
Reply(op, u, value) == [NoRet EXCEPT !.op = op, !.user = u, !.value = value]

\* the variables no dialogue step touches
DialogueFrame ==
    /\ UNCHANGED <<inflight, chat, frame>>
    /\ UNCHANGED <<pc, listing, idx, new_orders, acceptBtn, batched, passes, glitches,
                   changes>>
    /\ skipped' = {}

\* a dialogue step that changes nothing but the answer
Answer(op, u, value) ==
    /\ ret' = Reply(op, u, value)
    /\ UNCHANGED <<remote, store, clears, faults, pending_confirmations, clearPrompt>>

\* button "cancel_reason:<reason>:<id>:<code>" pressed by user u: the admin
\* check of button_callback, handle_cancel_order, then the confirmation of u is
\* popped
Cancel(u, c) ==
    /\ Quiet
    /\ inflight = NoHandler
    /\ DialogueFrame
    /\ UserKnows(c)
    /\ IF u \notin admin_ids
       THEN Answer("cancel_reason", u, "denied")
       ELSE /\ \E reason \in CancelReasons :
                LET r == handle_cancel_order(remote, c, reason)
                IN  /\ remote' = r.remote
                    /\ ret' = [op |-> "cancel_order", code |-> c, value |-> r.value,
                               url |-> None, gw |-> "none", requests |-> r.requests,
                               state |-> None, count |-> 0, queries |-> 0, user |-> u]
            /\ pending_confirmations' = Pop(pending_confirmations, u)
            /\ UNCHANGED <<store, clears, faults, clearPrompt>>

\* _execute_clear_db for user u: clear_database, its outcome reported, and the
\* confirmation of u popped by clear_db_command
ExecuteClearDb(u) ==
    /\ clears < MaxClears
    /\ EventsLeft > 0
    /\ clears' = clears + 1
    /\ \E fault \in FaultChoices :
        LET r == clear_database(store, fault)
        IN  /\ fault => EventsLeft > 1
            /\ store' = r.store
            /\ faults' = faults + (IF fault THEN 1 ELSE 0)
            /\ ret' = [op |-> "clear_database", code |-> None,
                       value |-> IF r.raised THEN "raised" ELSE "count", url |-> None,
                       gw |-> "none", requests |-> 0,
                       state |-> None, count |-> r.count, queries |-> 0, user |-> u]
    /\ pending_confirmations' = Pop(pending_confirmations, u)
    /\ UNCHANGED <<remote, clearPrompt>>

\* /clear_db of an administrator whose confirmation is pending, whatever the
\* dialogue before it: _execute_clear_db -> clear_database
ClearDb ==
    /\ Quiet
    /\ inflight = NoHandler
    /\ DialogueFrame
    /\ \E u \in admin_ids : ExecuteClearDb(u)

\* variant of the command that asks no administrator right
ClearDbCommand_open(u) ==
    /\ Quiet
    /\ inflight = NoHandler
    /\ DialogueFrame
    /\ IF pending_confirmations[u] = "clear_db"
       THEN ExecuteClearDb(u)
       ELSE /\ pending_confirmations' = [pending_confirmations EXCEPT ![u] = "clear_db"]
            /\ clearPrompt' = "asked"
            /\ ret' = Reply("clear_db_command", u, "asked")
            /\ UNCHANGED <<remote, store, clears, faults>>

\* /clear_db sent by user u: ignored for a user who is no administrator,
\* executed when the confirmation of u is pending, and otherwise the confirmation
\* is recorded and the prompt with its two buttons is sent
ClearDbCommand(u) ==
    /\ Quiet
    /\ inflight = NoHandler
    /\ DialogueFrame
    /\ IF u \notin admin_ids
       THEN Answer("clear_db_command", u, "ignored")
       ELSE IF pending_confirmations[u] = "clear_db"
       THEN ExecuteClearDb(u)
       ELSE /\ pending_confirmations' = [pending_confirmations EXCEPT ![u] = "clear_db"]
            /\ clearPrompt' = "asked"
            /\ ret' = Reply("clear_db_command", u, "asked")
            /\ UNCHANGED <<remote, store, clears, faults>>

\* button "confirm_clear_db" of the prompt pressed by user u: the prompt is
\* replaced by the request to send the command again; no confirmation changes
ConfirmClearDb(u) ==
    /\ Quiet
    /\ inflight = NoHandler
    /\ DialogueFrame
    /\ clearPrompt = "asked"
    /\ IF u \notin admin_ids
       THEN Answer("confirm_clear_db", u, "denied")
       ELSE /\ clearPrompt' = "confirmed"
            /\ ret' = Reply("confirm_clear_db", u, "confirmed")
            /\ UNCHANGED <<remote, store, clears, faults, pending_confirmations>>

\* the two callback data of the cancel buttons
CancelButtons == {"cancel_action", "cancel_clear_db"}

\* a cancel button pressed by user u: the confirmation of u is popped and the
\* message the button belongs to is replaced
CancelAction(u, data) ==
    /\ Quiet
    /\ inflight = NoHandler
    /\ DialogueFrame
    /\ data = "cancel_clear_db" => clearPrompt = "asked"
    /\ pending_confirmations' = Pop(pending_confirmations, u)
    /\ clearPrompt' = IF data = "cancel_clear_db" THEN "cancelled" ELSE clearPrompt
    /\ ret' = Reply(data, u, "cancelled")
    /\ UNCHANGED <<remote, store, clears, faults>>

\* button "waybill:<id>:<code>" pressed by user u: the confirmation is recorded
\* and the prompt is shown
WaybillSelect(u, c) ==
    /\ Quiet
    /\ inflight = NoHandler
    /\ DialogueFrame
    /\ UserKnows(c)
    /\ pending_confirmations' = [pending_confirmations EXCEPT ![u] = "create_waybill"]
    /\ ret' = [Reply("waybill", u, "asked") EXCEPT !.code = c]
    /\ UNCHANGED <<remote, store, clears, faults, clearPrompt>>

\* /cancel_order sent by user u: ignored for a user who is no administrator,
\* otherwise the active orders are listed with one button each
CancelOrderCommand(u) ==
    /\ Quiet
    /\ inflight = NoHandler
    /\ DialogueFrame
    /\ Answer("cancel_order_command", u,
              IF u \notin admin_ids THEN "ignored" ELSE "listed")

\* button "cancel_order_select:<id>:<code>" pressed by user u
CancelOrderSelect(u, c) ==
    /\ Quiet
    /\ inflight = NoHandler
    /\ DialogueFrame
    /\ UserKnows(c)
    /\ IF u \notin admin_ids
       THEN Answer("cancel_order_select", u, "denied")
       ELSE /\ pending_confirmations' =
                    [pending_confirmations EXCEPT ![u] = "cancel_order"]
            /\ ret' = [Reply("cancel_order_select", u, "asked") EXCEPT !.code = c]
            /\ UNCHANGED <<remote, store, clears, faults, clearPrompt>>

\* the marketplace changes one attribute of an order (buyer, carrier, merchant cabinet)
RemoteChange(c) ==
    /\ Quiet
    /\ UNCHANGED <<inflight, chat>>
    /\ UNCHANGED <<pending_confirmations, clearPrompt, frame>>
    /\ changes < MaxRemoteChanges
    /\ EventsLeft > 0
    /\ changes' = changes + 1
    /\ \E r \in [status : RemoteStatuses, state : States, waybill : {None, UrlOf(c)},
                 kd_waybill : {None, UrlOf(c)}] :
        /\ LET changed == {f \in {"status", "state", "waybill", "kd_waybill"} :
                               r[f] # remote[c][f]}
           IN  \* one attribute changes, or the label is formed or withdrawn and shows
               \* at both places the program reads it from
               \/ Cardinality(changed) = 1
               \/ changed = {"waybill", "kd_waybill"} /\ r.waybill = r.kd_waybill
        /\ remote' = [remote EXCEPT ![c] = r]
    /\ skipped' = {}
    /\ ret' = NoRet
    /\ UNCHANGED <<store, pc, listing, idx, new_orders, acceptBtn, batched, passes, clears,
                   faults, glitches>>

\* the caller of the step taken last goes on with what the step returned (the
\* handler replies to the user, the pass logs what it skipped)
Return ==
    /\ ~Quiet
    /\ UNCHANGED <<inflight, chat>>
    /\ UNCHANGED <<pending_confirmations, clearPrompt, frame>>
    /\ ret' = NoRet
    /\ skipped' = {}
    /\ UNCHANGED <<remote, store, pc, listing, idx, new_orders, acceptBtn, batched, passes,
                   clears, faults, glitches, changes>>

Next ==
    \/ SyncList
    \/ SyncAssemble
    \/ SyncNotify
    \/ \E c \in Codes : Accept(c)
    \/ \E u \in admin_ids, c \in Codes : CreateWaybill(u, c)
    \/ \E u \in admin_ids, c \in Codes : Cancel(u, c)
    \/ ClearDb
    \/ \E c \in Codes : RemoteChange(c)
    \/ Return

Spec == Init /\ [][Next]_vars

\* the program with, in addition, the status query and the label downloads of
\* handle_create_waybill
NextLabel ==
    \/ Next
    \/ \E c \in Codes : CheckStatus(c)
    \/ StatusDownloaded
    \/ BotCheck
    \/ BotDownloaded

SpecLabel == Init /\ [][NextLabel]_vars

\* The monitoring when the marketplace already holds an order in a status that
\* is in none of the lists of the program.
InitReturned ==
    /\ InitDialogue
    /\ frame = NoFrame
    /\ remote = [InitRemote EXCEPT !["c2"].status = "RETURNED"]
    /\ store = EmptyStore
    /\ pc = "idle"
    /\ listing = <<>>
    /\ idx = 0
    /\ new_orders = <<>>
    /\ acceptBtn = {}
    /\ batched = {}
    /\ chat = {}
    /\ skipped = {}
    /\ ret = NoRet
    /\ inflight = NoHandler
    /\ passes = 0 /\ clears = 0 /\ faults = 0 /\ glitches = 0 /\ changes = 0

SpecReturned == InitReturned /\ [][Next]_vars

\* The dialogues of the bot, started after one pass that listed both orders and
\* saved and notified them: commands and buttons of an administrator and of
\* another user of the chat.
Recorded(st, c) ==
    LET order_info == _get_full_order_info(Summary(InitRemote, c), {})
    IN  mark_as_notified(save_order_to_db(st, order_info, FALSE), c, FALSE).store

InitBot ==
    /\ InitDialogue
    /\ frame = NoFrame
    /\ remote = InitRemote
    /\ store = Recorded(Recorded(EmptyStore, "c1"), "c2")
    /\ pc = "idle"
    /\ listing = <<>>
    /\ idx = 0
    /\ new_orders = <<>>
    /\ acceptBtn = {"c1"}
    /\ batched = Codes
    /\ chat = Codes
    /\ skipped = {}
    /\ ret = NoRet
    /\ inflight = NoHandler
    /\ passes = 1 /\ clears = 0 /\ faults = 0 /\ glitches = 0 /\ changes = 0

NextBot ==
    \/ \E u \in Users : ClearDbCommand(u)
    \/ \E u \in Users : ConfirmClearDb(u)
    \/ \E u \in Users, data \in CancelButtons : CancelAction(u, data)
    \/ \E u \in Users, c \in Codes : WaybillSelect(u, c)
    \/ \E u \in Users, c \in Codes : CreateWaybill(u, c)
    \/ \E u \in Users : CancelOrderCommand(u)
    \/ \E u \in Users, c \in Codes : CancelOrderSelect(u, c)
    \/ \E u \in Users, c \in Codes : Cancel(u, c)
    \/ Return

SpecBot == InitBot /\ [][NextBot]_vars

\* ---------------------------------------------------------------------------
\* get_orders and its creation-date window.  Instants are Unix milliseconds;
\* the clock is read in whole milliseconds (int() drops the rest).
Hour == 3600000
Day == 24 * Hour

\* the zone of the host: its UTC offset before and from the instant `at`.
\* The program sets no zone, datetime.now() is the naive local time of the host.
HostZones ==
    { [name |-> "fixed", before |-> 0, after |-> 0, at |-> 2 * Day],
      [name |-> "back", before |-> 6 * Hour, after |-> 5 * Hour, at |-> 2 * Day],
      [name |-> "forward", before |-> Hour, after |-> 2 * Hour, at |-> 2 * Day] }

\* the instants at which the clock may be read
ClockReadings ==
    {Day, 2 * Day + Hour \div 2, 3 * Day, 16 * Day - Hour \div 2, 16 * Day + Hour \div 2,
     17 * Day}

\* an optional integer: <<>> is Python's None, <<v>> is the integer v
Missing == <<>>
Some(v) == <<v>>
Val(x) == x[1]

\* the bounds a caller may give
CallerFrom == {Missing, Some(0), Some(Day)}
CallerTo == {Missing, Some(0), Some(3 * Day)}

utcoffset(zone, u) == IF u < zone.at THEN zone.before ELSE zone.after

\* the local wall clock of the host at instant u
local(zone, u) == u + utcoffset(zone, u)

max_fold == Day

\* datetime.now(): the naive local time, with fold = 1 when the wall clock shows
\* this time for the second time
datetime_now(zone, u) ==
    LET result == local(zone, u)
        trans  == result - local(zone, u - max_fold) - max_fold
        fold   == IF trans < 0 /\ local(zone, u + trans) = result THEN 1 ELSE 0
    IN  [wall |-> result, fold |-> fold]

\* naive datetime minus timedelta: wall-clock arithmetic, fold is reset
minus_timedelta(dt, delta) == [wall |-> dt.wall - delta, fold |-> 0]

\* datetime.timestamp() of a naive datetime: the instant whose local time is
\* dt.wall, found with the two offsets around it
timestamp(zone, dt) ==
    LET t  == dt.wall
        a  == local(zone, t) - t
        u1 == t - a
        t1 == local(zone, u1)
        pr == u1 + (IF dt.fold = 0 THEN 0 - max_fold ELSE max_fold)
        b  == IF t1 = t THEN local(zone, pr) - pr ELSE t1 - u1
        u2 == t - b
        t2 == local(zone, u2)
    IN  IF t1 = t /\ a = b THEN u1
        ELSE IF t2 = t THEN u2
        ELSE IF t1 = t THEN u1
        ELSE IF dt.fold = 0 THEN (IF u1 > u2 THEN u1 ELSE u2)
        ELSE (IF u1 < u2 THEN u1 ELSE u2)

InitDates ==
    /\ InitDialogue
    /\ remote = InitRemote
    /\ store = EmptyStore
    /\ pc = "idle"
    /\ listing = <<>>
    /\ idx = 0
    /\ new_orders = <<>>
    /\ acceptBtn = {}
    /\ batched = {}
    /\ chat = {}
    /\ skipped = {}
    /\ ret = NoRet
    /\ inflight = NoHandler
    /\ passes = 0 /\ clears = 0 /\ faults = 0 /\ glitches = 0 /\ changes = 0
    /\ \E zone \in HostZones, from \in CallerFrom, to \in CallerTo :
            frame = [op |-> "get_orders", at |-> "from", zone |-> zone,
                     from_arg |-> from, to_arg |-> to, t1 |-> Missing,
                     t2 |-> Missing, creation_date_from |-> from,
                     creation_date_to |-> to, ge |-> Missing, le |-> Missing]

\* the variables get_orders does not touch
OnlyFrame ==
    UNCHANGED <<remote, store, pc, listing, idx, new_orders, acceptBtn, batched, skipped,
                ret, inflight, chat, passes, clears, faults, glitches, changes,
                pending_confirmations, clearPrompt>>

\* variant that takes the lower bound on the time line: the instant 14 days
\* before the reading
DatesFrom_instant ==
    /\ frame.op = "get_orders" /\ frame.at = "from"
    /\ OnlyFrame
    /\ IF frame.creation_date_from = Missing
       THEN \E u \in ClockReadings :
                frame' = [frame EXCEPT !.at = "to", !.t1 = Some(u),
                                       !.creation_date_from = Some(u - 14 * Day)]
       ELSE frame' = [frame EXCEPT !.at = "to"]

\* if creation_date_from is None: 14 days before now, on the wall clock
DatesFrom ==
    /\ frame.op = "get_orders" /\ frame.at = "from"
    /\ OnlyFrame
    /\ IF frame.creation_date_from = Missing
       THEN \E u \in ClockReadings :
                LET days_ago == minus_timedelta(datetime_now(frame.zone, u), 14 * Day)
                IN  frame' = [frame EXCEPT !.at = "to", !.t1 = Some(u),
                         !.creation_date_from = Some(timestamp(frame.zone, days_ago))]
       ELSE frame' = [frame EXCEPT !.at = "to"]

\* if creation_date_to is None: now; the clock is read a second time
DatesTo ==
    /\ frame.op = "get_orders" /\ frame.at = "to"
    /\ OnlyFrame
    /\ IF frame.creation_date_to = Missing
       THEN \E u \in ClockReadings :
                /\ frame.t1 # Missing => u >= Val(frame.t1)
                /\ frame' = [frame EXCEPT !.at = "params", !.t2 = Some(u),
                         !.creation_date_to =
                             Some(timestamp(frame.zone, datetime_now(frame.zone, u)))]
       ELSE frame' = [frame EXCEPT !.at = "params"]

\* the two filters of the request
DatesSend ==
    /\ frame.op = "get_orders" /\ frame.at = "params"
    /\ OnlyFrame
    /\ frame' = [frame EXCEPT !.at = "sent", !.ge = frame.creation_date_from,
                              !.le = frame.creation_date_to]

NextDates == DatesFrom \/ DatesTo \/ DatesSend

SpecDates == InitDates /\ [][NextDates]_vars

\* ---------------------------------------------------------------------------
\* Order.items as a pair of functions: a list of line items is stored, through
\* the setter alone or through save_order of a new order, and read back.
MaxItems == 2           \* line items of one order

\* line items as _get_full_order_info builds them
SampleItems ==
    { [name |-> n, description |-> d, quantity |-> q, price |-> pr, total_price |-> q * pr] :
        n \in {"Tovar", ""}, d \in {"", "name | code"}, q \in {1, 2}, pr \in {0, 100} }

ItemLists == UNION { [1..n -> SampleItems] : n \in 0..MaxItems }

\* the order the items belong to, as save_order receives it
OrderWith(items) ==
    [id |-> IdOf("c1"), code |-> "c1", status |-> "APPROVED_BY_BANK", state |-> "NEW",
     items |-> items, warehouse_name |-> Warehouse, waybill_url |-> "",
     waybill_pdf_data |-> None]

InitItems ==
    /\ InitDialogue
    /\ remote = InitRemote
    /\ store = EmptyStore
    /\ pc = "idle"
    /\ listing = <<>>
    /\ idx = 0
    /\ new_orders = <<>>
    /\ acceptBtn = {}
    /\ batched = {}
    /\ chat = {}
    /\ skipped = {}
    /\ ret = NoRet
    /\ inflight = NoHandler
    /\ passes = 0 /\ clears = 0 /\ faults = 0 /\ glitches = 0 /\ changes = 0
    /\ \E value \in ItemLists :
            frame = [op |-> "items", at |-> "new", value |-> value, got |-> <<>>]

\* the variables the items property does not touch
OnlyStoreAndFrame ==
    UNCHANGED <<remote, pc, listing, idx, new_orders, acceptBtn, batched, skipped, ret,
                inflight, chat, passes, clears, faults, glitches, changes,
                pending_confirmations, clearPrompt>>

\* order.items = value on a fresh Order
ItemsSet ==
    /\ frame.op = "items" /\ frame.at = "new"
    /\ OnlyStoreAndFrame
    /\ store' = Put(store, "c1", items_setter(NewRow(OrderWith(<<>>)), frame.value))
    /\ frame' = [frame EXCEPT !.at = "stored"]

\* save_order of a new order that carries the items
ItemsSave ==
    /\ frame.op = "items" /\ frame.at = "new"
    /\ OnlyStoreAndFrame
    /\ store' = save_order(store, OrderWith(frame.value), FALSE).store
    /\ frame' = [frame EXCEPT !.at = "saved"]

\* order.items read back
ItemsGet ==
    /\ frame.op = "items" /\ frame.at \in {"stored", "saved"}
    /\ OnlyStoreAndFrame
    /\ UNCHANGED store
    /\ frame' = [frame EXCEPT !.at = "got", !.got = items_getter(store["c1"])]

NextItems == ItemsSet \/ ItemsSave \/ ItemsGet

SpecItems == InitItems /\ [][NextItems]_vars

\* ---------------------------------------------------------------------------
\* _get_full_order_info step by step: the loop over the entries of one order,
\* with the two lookups of every turn.
MaxEntries == 3         \* entries of one order

EntryLists == UNION { [1..n -> {"e1", "e2"}] : n \in 0..MaxEntries }

InitInfo ==
    /\ InitDialogue
    /\ remote = InitRemote
    /\ store = EmptyStore
    /\ pc = "idle"
    /\ listing = <<>>
    /\ idx = 0
    /\ new_orders = <<>>
    /\ acceptBtn = {}
    /\ batched = {}
    /\ chat = {}
    /\ skipped = {}
    /\ ret = NoRet
    /\ inflight = NoHandler
    /\ passes = 0 /\ clears = 0 /\ faults = 0 /\ glitches = 0 /\ changes = 0
    /\ \E c \in Codes, items_data \in EntryLists :
            frame = [op |-> "info", at |-> "describe", order |-> Summary(InitRemote, c),
                     items_data |-> items_data, k |-> 1, items |-> <<>>,
                     product_description |-> "", warehouse_info |-> Missing,
                     lookups |-> <<>>, failed |-> {}, result |-> <<>>]

\* the order_info the function returns once the loop is over
OrderInfo(f) ==
    LET waybill_url == IF f.order.waybill = None THEN "" ELSE f.order.waybill
    IN  [id |-> f.order.id, code |-> f.order.code, status |-> f.order.status,
         state |-> f.order.state, items |-> f.items,
         warehouse_name |-> IF f.warehouse_info # Missing THEN Val(f.warehouse_info)
                            ELSE PlaceholderWarehouse,
         waybill_url |-> waybill_url,
         waybill_pdf_data |-> IF waybill_url # "" THEN PdfBytes ELSE None]

\* the head of a turn: get_product_description of entry k, "" when it fails;
\* when no entry is left the order_info is built
InfoDescribe ==
    /\ frame.op = "info" /\ frame.at = "describe"
    /\ OnlyFrame
    /\ IF frame.k > Len(frame.items_data)
       THEN frame' = [frame EXCEPT !.at = "done", !.result = <<OrderInfo(frame)>>]
       ELSE \E ok \in BOOLEAN :
                frame' = [frame EXCEPT
                            !.at = "warehouse",
                            !.product_description = IF ok THEN "name | code" ELSE "",
                            !.failed = IF ok THEN @ ELSE @ \cup {frame.k}]

\* variant of the turn that keeps no placeholder when the lookup failed
InfoWarehouse_retries ==
    /\ frame.op = "info" /\ frame.at = "warehouse"
    /\ OnlyFrame
    /\ \E ok \in BOOLEAN :
        LET asked == frame.warehouse_info = Missing
            item  == [entry |-> frame.items_data[frame.k],
                      description |-> frame.product_description]
        IN  /\ ~asked => ok
            /\ frame' = [frame EXCEPT
                            !.at = "describe",
                            !.k = @ + 1,
                            !.items = Append(@, item),
                            !.warehouse_info = IF asked /\ ok THEN Some(Warehouse) ELSE @,
                            !.lookups = IF asked THEN Append(@, [index |-> frame.k, ok |-> ok])
                                        ELSE @,
                            !.failed = IF asked /\ ~ok THEN @ \cup {0} ELSE @]

\* the rest of a turn: get_delivery_point while warehouse_info is None, the
\* placeholder when it fails, then the item is appended
InfoWarehouse ==
    /\ frame.op = "info" /\ frame.at = "warehouse"
    /\ OnlyFrame
    /\ \E ok \in BOOLEAN :
        LET asked == frame.warehouse_info = Missing
            item  == [entry |-> frame.items_data[frame.k],
                      description |-> frame.product_description]
        IN  /\ ~asked => ok
            /\ frame' = [frame EXCEPT
                            !.at = "describe",
                            !.k = @ + 1,
                            !.items = Append(@, item),
                            !.warehouse_info =
                                IF ~asked THEN @
                                ELSE IF ok THEN Some(Warehouse)
                                ELSE Some(PlaceholderWarehouse),
                            !.lookups = IF asked THEN Append(@, [index |-> frame.k, ok |-> ok])
                                        ELSE @,
                            !.failed = IF asked /\ ~ok THEN @ \cup {0} ELSE @]

NextInfo == InfoDescribe \/ InfoWarehouse

SpecInfo == InitInfo /\ [][NextInfo]_vars

---------------------------------------------------------------------------
(* save_order on its own: the Store after a sequence of observations is saved,    *)
(* whatever ids, items and labels the observations carry                          *)

MaxSaves == 2           \* observations saved one after the other

SaveIds == {IdOf(c) : c \in Codes}

SaveItems == {<<>>, <<[entry |-> "e1", description |-> "name | code"]>>}

\* the order_info dictionaries save_order_to_db may be given: the PDF is there only
\* when the label URL is
SaveInfos ==
    {oi \in [id : SaveIds, code : Codes,
             status : {"APPROVED_BY_BANK", "ACCEPTED_BY_MERCHANT"}, state : {"NEW"},
             items : SaveItems, warehouse_name : {Warehouse},
             waybill_url : {""} \cup {UrlOf(c) : c \in Codes},
             waybill_pdf_data : {None, PdfBytes}] :
        /\ oi.waybill_url \in {"", UrlOf(oi.code)}
        /\ oi.waybill_pdf_data # None => oi.waybill_url # ""}

InitSave ==
    /\ InitDialogue
    /\ frame = NoFrame
    /\ remote = [c \in Codes |->
                    [status |-> "APPROVED_BY_BANK", state |-> "NEW", waybill |-> None,
                     kd_waybill |-> None]]
    /\ store = EmptyStore
    /\ pc = "save"
    /\ listing = <<>>
    /\ idx = 1
    /\ new_orders \in [1..MaxSaves -> SaveInfos]
    /\ acceptBtn = {}
    /\ batched = {}
    /\ chat = {}
    /\ skipped = {}
    /\ ret = NoRet
    /\ inflight = NoHandler
    /\ passes = 0 /\ clears = 0 /\ faults = 0 /\ glitches = 0 /\ changes = 0

\* Database.save_order(new_orders[idx])
SaveOrder ==
    /\ pc = "save"
    /\ UNCHANGED <<inflight, chat>>
    /\ UNCHANGED <<pending_confirmations, clearPrompt, frame>>
    /\ LET data == new_orders[idx]
           r == save_order(store, data, FALSE)
       IN  /\ store' = r.store
           /\ ret' = [op |-> "save_order", code |-> data.code,
                      value |-> IF r.raised THEN "raised" ELSE "saved", url |-> None,
                      gw |-> "none", requests |-> 0, state |-> None,
                      count |-> 0, queries |-> 0, user |-> None]
    /\ idx' = idx + 1
    /\ pc' = IF idx < Len(new_orders) THEN "save" ELSE "saved"
    /\ UNCHANGED <<remote, listing, new_orders, acceptBtn, batched, skipped, passes, clears,
                   faults, glitches, changes>>

\* Database.mark_as_notified(c) between two saves
MarkNotified(c) ==
    /\ pc = "save"
    /\ UNCHANGED <<inflight, chat>>
    /\ UNCHANGED <<pending_confirmations, clearPrompt, frame>>
    /\ c \in DOMAIN store
    /\ store[c].notified_at = None
    /\ store' = mark_as_notified(store, c, FALSE).store
    /\ ret' = [op |-> "mark_as_notified", code |-> c, value |-> None, url |-> None,
               gw |-> "none", requests |-> 0, state |-> None,
               count |-> 0, queries |-> 0, user |-> None]
    /\ UNCHANGED <<remote, pc, listing, idx, new_orders, acceptBtn, batched, skipped, passes,
                   clears, faults, glitches, changes>>

NextSave ==
    \/ SaveOrder
    \/ \E c \in Codes : MarkNotified(c)

SpecSave == InitSave /\ [][NextSave]_vars

---------------------------------------------------------------------------
(* Properties *)

InBatch(batch, c) == \E k \in 1..Len(batch) : batch[k].code = c

\* the codes the step puts in the notification batch
Appended == {c \in Codes : InBatch(new_orders', c) /\ ~InBatch(new_orders, c)}

HasNotifiedRecord(st, c) == c \in DOMAIN st /\ st[c].notified_at # None

LifecycleOps == {"accept_order", "create_waybill"}

\* C1, as stated: a code is placed in a notification batch at most once: a step never
\* puts in the batch a code that was in a batch before.
C1_AtMostOnce == [][\A c \in Appended : c \notin batched]_vars

\* C1, amended: a step puts a code in the notification batch only if the Store
\* holds no record of the code with non-null notified_at, and a code that was in a
\* batch before is put in a batch again only after a bulk clear ran or a Store write
\* failed.
C1_NotifiedIsSkipped ==
    [][\A c \in Appended : /\ ~HasNotifiedRecord(store, c)
                           /\ c \in batched => clears + faults > 0]_vars

\* a pass listed a code that was notified before and skipped it
C1_Witness ==
    \E o \in skipped : /\ o.code \in batched
                       /\ HasNotifiedRecord(store, o.code)
                       /\ ~InBatch(new_orders, o.code)

\* C2: when the pass has gone through the listing, the record of every listed order
\* it skipped as already notified carries the status and state just listed.
C2_SkippedIsRefreshed ==
    pc # "assemble" =>
        \A o \in skipped : /\ o.code \in DOMAIN store
                           /\ store[o.code].status = o.status
                           /\ store[o.code].state = o.state

\* C3: in the first pass (no code has a record when it starts), when get_new_orders
\* has returned and check_new_orders has saved the batch, every order of the batch
\* listed as APPROVED_BY_BANK or ACCEPTED_BY_MERCHANT has a record with non-null
\* notified_at, is in the batch once, and has as many items as the marketplace holds
\* entries for it.
C3_NewOrderRecorded ==
    [][(pc = "assemble" /\ pc' # "assemble" /\ passes = 1) =>
        \A k \in 1..Len(new_orders') :
            LET o == new_orders'[k]
            IN  o.status \in {"APPROVED_BY_BANK", "ACCEPTED_BY_MERCHANT"} =>
                /\ HasNotifiedRecord(store', o.code)
                /\ Cardinality({j \in 1..Len(new_orders') : new_orders'[j].code = o.code}) = 1
                /\ Len(o.items) = Len(EntriesOf(o.code))]_vars

\* C4: when the gateway call of accept_order fails, accept_order returns False and
\* the Store is as it was before the call.
C4_FailedAcceptLeavesStore ==
    [][(ret'.op = "accept_order" /\ ret'.gw = "failed") =>
        (ret'.value = "False" /\ store' = store)]_vars

\* accept_order returned after a failed gateway call, for a code that has a record
C4_Witness ==
    ret.op = "accept_order" /\ ret.gw = "failed" /\ ret.code \in DOMAIN store

\* C5, as stated: accept_order makes one gateway call, returns True or False, True
\* exactly when the gateway call succeeded, and after True the record of the code
\* has status ACCEPTED_BY_MERCHANT.
C5_TrueIffGatewayOk ==
    ret.op = "accept_order" =>
        /\ ret.requests = 1
        /\ ret.value \in {"True", "False"}
        /\ ret.value = "True" <=> ret.gw = "ok"
        /\ ret.value = "True" =>
               (ret.code \in DOMAIN store /\ store[ret.code].status = "ACCEPTED_BY_MERCHANT")

\* C5, amended: accept_order makes one gateway call, returns True or False, True
\* exactly when the gateway call succeeded and the Store update did not fail, and
\* after True the record of the code, if the Store holds one, has status
\* ACCEPTED_BY_MERCHANT; no record is created.
C5_TrueIffGatewayAndStoreOk ==
    [][ret'.op = "accept_order" =>
        /\ ret'.requests = 1
        /\ ret'.value \in {"True", "False"}
        /\ ret'.value = "True" <=> (ret'.gw = "ok" /\ faults' = faults)
        /\ DOMAIN store' = DOMAIN store
        /\ (ret'.value = "True" /\ ret'.code \in DOMAIN store') =>
               store'[ret'.code].status = "ACCEPTED_BY_MERCHANT"]_vars

\* accept_order returned True for a code that has a record
C5_Witness ==
    /\ ret.op = "accept_order" /\ ret.value = "True"
    /\ ret.code \in DOMAIN store /\ store[ret.code].status = "ACCEPTED_BY_MERCHANT"

\* C6: a lifecycle action (accept_order, create_waybill) whose gateway call failed
\* or was not made leaves the Store as it was: the Store is written by a lifecycle
\* action only after its gateway call succeeded.
C6_StoreWrittenAfterGateway ==
    [][(ret'.op \in LifecycleOps /\ ret'.gw # "ok") => store' = store]_vars

\* a lifecycle action returned without a successful gateway call, for a code that
\* has a record the action could have written to
C6_Witness ==
    /\ ret.op \in LifecycleOps /\ ret.gw # "ok"
    /\ ret.code \in DOMAIN store /\ store[ret.code].status = "ACCEPTED_BY_MERCHANT"

\* C7: when a lifecycle action whose gateway call succeeded returns, the record of
\* the order carries the status the marketplace now holds (and, after a transition
\* to ASSEMBLE without a label, a null label URL).
C7_StoreMirrorsRemote ==
    (ret.op \in LifecycleOps /\ ret.gw = "ok" /\ ret.code \in DOMAIN store) =>
        /\ store[ret.code].status = remote[ret.code].status
        /\ (ret.op = "create_waybill" /\ ret.url = None) =>
               store[ret.code].waybill_url \in {None, ""}

\* C8: create_waybill for an order whose label URL is absent at the marketplace
\* when it returns, none of its gateway requests having failed, returns a successful
\* result with a null label URL.
C8_SuccessWithNullUrl ==
    (ret.op = "create_waybill" /\ ret.gw # "failed" /\ remote[ret.code].waybill = None) =>
        (ret.value = "dict" /\ ret.url = None)

\* C9: a cancel action with one of the fixed reasons issues a gateway request, and
\* the handler gets a result from the order service.
C9_CancelIssuesRequest ==
    ret.op = "cancel_order" => (ret.requests >= 1 /\ ret.value # "AttributeError")

\* C10: when the listing call of a pass fails, the pass is over in that step: the
\* batch is empty, one gateway request was issued, the Store and the set of notified
\* codes are as before, and the next scheduled pass can start (pc is idle).
C10_ListingFailureEndsPass ==
    [][(ret'.op = "get_orders" /\ ret'.gw = "failed") =>
        /\ pc' = "idle"
        /\ new_orders' = <<>>
        /\ listing' = <<>>
        /\ ret'.requests = 1
        /\ store' = store
        /\ batched' = batched]_vars

\* a listing call failed while the Store held a record; the pass is over
C10_Witness ==
    /\ ret.op = "get_orders" /\ ret.gw = "failed"
    /\ DOMAIN store # {}
    /\ pc = "idle"

\* C11: when the item fetch of a listed order raises, the order's record is as it
\* was and not marked notified (a later pass takes the order up again), the order is
\* not in the batch, the batch is otherwise as it was, the fetch is not repeated, and
\* the pass goes on with the next listed order that is not notified, or returns the
\* batch when there is none.
C11_FailedOrderIsLeftOut ==
    [][(ret'.op = "get_order_items" /\ ret'.gw = "failed") =>
        LET c == ret'.code
            j == NextUnnotified(store, listing, idx + 1)
        IN  /\ c = listing[idx].code
            /\ ret'.requests = 1
            /\ (c \in DOMAIN store') = (c \in DOMAIN store)
            /\ c \in DOMAIN store => store'[c] = store[c]
            /\ ~HasNotifiedRecord(store', c)
            /\ ~InBatch(new_orders', c)
            /\ new_orders' = new_orders
            /\ batched' = batched
            /\ IF j <= Len(listing)
               THEN pc' = "assemble" /\ idx' = j /\ listing' = listing
               ELSE pc' = (IF ToNotify(new_orders) = <<>> THEN "idle" ELSE "notify")]_vars

\* the item fetch of one order failed and the pass returned the other order in its batch
C11_Witness ==
    /\ ret.op = "get_order_items" /\ ret.gw = "failed"
    /\ pc = "notify"
    /\ Len(new_orders) = 1
    /\ new_orders[1].code # ret.code

\* the step is AssembleDone: the pass leaves listing[idx] with its information
AssembleDoneStep ==
    /\ pc = "assemble"
    /\ pc' # "assemble" \/ idx' # idx
    /\ ret'.op # "get_order_items"

\* the sub-calls of an assembled order that left their placeholder in its information
Placeholders(order, oi) ==
    Cardinality({i \in 1..Len(oi.items) : oi.items[i].description = ""})
    + (IF Len(oi.items) >= 1 /\ oi.warehouse_name = PlaceholderWarehouse THEN 1 ELSE 0)
    + (IF order.waybill # None /\ oi.waybill_pdf_data = None THEN 1 ELSE 0)

\* C12: when sub-calls of an order's assembly fail (description, warehouse, label
\* PDF), the order is not skipped: if it is not completed it is appended to the batch
\* with all its items, with one placeholder per failed sub-call (empty description,
\* placeholder warehouse, null PDF) and its label URL kept; and unless a Store write
\* failed in the step, its record is saved with these values and marked notified.
C12_EnrichmentFailureKeepsOrder ==
    [][(AssembleDoneStep /\ glitches' > glitches) =>
        LET order == listing[idx]
            c == order.code
        IN  /\ ~is_completed(order) =>
                /\ Len(new_orders') = Len(new_orders) + 1
                /\ LET oi == new_orders'[Len(new_orders')]
                   IN  /\ oi.code = c
                       /\ Len(oi.items) = Len(EntriesOf(c))
                       /\ Placeholders(order, oi) = glitches' - glitches
                       /\ order.waybill # None => oi.waybill_url = order.waybill
                       /\ faults' = faults =>
                            /\ HasNotifiedRecord(store', c)
                            /\ store'[c].warehouse_name = oi.warehouse_name
                            /\ items_getter(store'[c]) = oi.items
                            /\ store'[c].waybill_url = oi.waybill_url
            /\ faults' = faults => HasNotifiedRecord(store', c)]_vars

\* an order whose warehouse lookup failed is in the batch and in the Store with the
\* placeholder warehouse and both its items
C12_Witness ==
    /\ pc = "notify"
    /\ \E k \in 1..Len(new_orders) :
        LET oi == new_orders[k]
        IN  /\ Len(oi.items) = 2
            /\ oi.warehouse_name = PlaceholderWarehouse
            /\ HasNotifiedRecord(store, oi.code)
            /\ store[oi.code].warehouse_name = PlaceholderWarehouse

\* C20: clear_database that returns has removed every record and returns the number
\* of records the Store held immediately before the call; when the deletion raises,
\* the Store is as it was before the call.
C20_ClearRemovesAllAndCounts ==
    [][ret'.op = "clear_database" =>
        IF ret'.value = "count"
        THEN store' = EmptyStore /\ ret'.count = Cardinality(DOMAIN store)
        ELSE ret'.value = "raised" /\ store' = store]_vars

\* clear_database returned 2 having emptied a Store of two records
C20_Witness ==
    ret.op = "clear_database" /\ ret.value = "count" /\ ret.count = 2 /\ store = EmptyStore

\* clear_database raised and the Store still holds its records
C20_WitnessFailed ==
    ret.op = "clear_database" /\ ret.value = "raised" /\ DOMAIN store # {}

\* the step is a bulk clear that went through
BulkClearStep == ret'.op = "clear_database" /\ ret'.value = "count"

\* C15: no step other than a bulk clear that went through removes a record from the
\* Store or resets a non-null notified_at to null.
C15_NotifiedAndRecordsStay ==
    [][~BulkClearStep =>
        \A c \in Codes :
            /\ c \in DOMAIN store => c \in DOMAIN store'
            /\ HasNotifiedRecord(store, c) => HasNotifiedRecord(store', c)]_vars

\* check_new_orders saved the batch again, over the records get_new_orders had
\* marked notified: the records are there and still notified
C15_Witness ==
    /\ pc = "notify"
    /\ clears = 0
    /\ Len(new_orders) = 2
    /\ \A k \in 1..Len(new_orders) : HasNotifiedRecord(store, new_orders[k].code)

\* the row carries the columns of one observation of the order, all of them
WholeSave(row, oi) ==
    /\ row.id = oi.id /\ row.status = oi.status /\ row.state = oi.state
    /\ row.warehouse_name = oi.warehouse_name /\ row.waybill_url = oi.waybill_url

\* C14: whatever steps of a pass and user actions interleave, a step leaves every
\* record as the writes made to its code, applied whole and one after the other,
\* leave it: the record is as it was, or as it was with notified_at set
\* (mark_as_notified), or as it was with the new status (update_order_status of
\* accept_order), or as it was with the label URL and the PDF of the download a
\* handler awaited (update_order_waybill), or it carries all the columns of the one
\* observation saved last (save_order); no record mixes columns of two writes or
\* holds part of a write.
C14_WritesAreWhole ==
    [][\A c \in DOMAIN store' :
        LET new == store'[c]
        IN  \/ /\ c \in DOMAIN store
               /\ \/ new = store[c]
                  \/ new = [store[c] EXCEPT !.notified_at = "utcnow"]
                  \/ /\ ret'.op = "accept_order" /\ ret'.code = c
                     /\ new = [store[c] EXCEPT !.status = "ACCEPTED_BY_MERCHANT"]
                  \/ /\ inflight.op \in {"check_order_status", "download_and_send_waybill"}
                     /\ inflight.code = c
                     /\ new = [store[c] EXCEPT !.waybill_url = inflight.url,
                                               !.waybill_pdf = b64encode(PdfBytes)]
            \/ /\ pc = "assemble"
               /\ \/ \E k \in 1..Len(new_orders') :
                        new_orders'[k].code = c /\ WholeSave(new, new_orders'[k])
                  \/ /\ c = listing[idx].code
                     /\ new.id = listing[idx].id
                     /\ new.status = listing[idx].status
                     /\ new.state = listing[idx].state
                     /\ new.warehouse_name \in {Warehouse, PlaceholderWarehouse}
                     /\ new.waybill_url \in {"", listing[idx].waybill}]_vars

\* an accept ran between two steps of a pass that had saved the order: the record
\* has the status accept_order wrote and the other columns the pass saved
C14_Witness ==
    /\ ret.op = "accept_order" /\ ret.value = "True"
    /\ pc = "notify"
    /\ \E k \in 1..Len(new_orders) :
        LET oi == new_orders[k]
        IN  /\ oi.code = ret.code
            /\ oi.status = "APPROVED_BY_BANK"
            /\ ret.code \in DOMAIN store
            /\ store[ret.code] = [store[ret.code] EXCEPT !.status = "ACCEPTED_BY_MERCHANT",
                                                         !.state = oi.state,
                                                         !.warehouse_name = oi.warehouse_name]

\* the waybill_pdf column that holds the bytes given (NULL for none)
PdfColumn(bytes) == IF bytes = None THEN None ELSE b64encode(bytes)

\* C16: save_order of a code that has a record leaves the record with every column
\* of the data saved, the item list and the cached label included, also when the
\* data carry no items or no label; notified_at is as it was.
C16_SaveOverwritesEveryField ==
    [][(ret'.op = "save_order" /\ ret'.value = "saved" /\ ret'.code \in DOMAIN store) =>
        LET data == new_orders[idx]
            new == store'[data.code]
        IN  /\ WholeSave(new, data)
            /\ items_getter(new) = data.items
            /\ new.waybill_pdf = PdfColumn(data.waybill_pdf_data)
            /\ new.notified_at = store[data.code].notified_at]_vars

\* C17: the save of an observed summary goes through whatever ids the Store holds,
\* leaves one record of the summary's code, carrying the summary's id, and leaves
\* the records of all other codes as they were.
C17_DedupByCodeAlone ==
    [][ret'.op = "save_order" =>
        LET data == new_orders[idx]
        IN  /\ ret'.value = "saved"
            /\ data.code \in DOMAIN store'
            /\ store'[data.code].id = data.id
            /\ \A x \in (DOMAIN store) \ {data.code} :
                    x \in DOMAIN store' /\ store'[x] = store[x]]_vars

HasCachedPdf(st, c) == c \in DOMAIN st /\ st[c].waybill_pdf # None

\* the step is the return of check_order_status for a code found at the marketplace
StatusReturned == ret'.op = "check_order_status" /\ ret'.gw = "ok"

\* the step ends a download that check_order_status awaited
StatusDownloadEnded == inflight.op = "check_order_status" /\ inflight'.op # "check_order_status"

\* C19, as stated: check_order_status for a code found at the marketplace returns
\* the status and state found, whether or not a label download succeeds; when it
\* found a label URL, no PDF was cached and the download succeeded, the record of
\* the code has that URL and the PDF; in every other case the Store is as it was.
C19_StatusQueryFrame ==
    [][StatusReturned =>
        LET c == ret'.code
            seen == IF StatusDownloadEnded THEN inflight
                    ELSE [status |-> remote[c].status, state |-> remote[c].state]
        IN  /\ ret'.value = seen.status
            /\ ret'.state = seen.state
            /\ IF StatusDownloadEnded /\ glitches' = glitches
               THEN /\ c \in DOMAIN store'
                    /\ store'[c].waybill_url = inflight.url
                    /\ store'[c].waybill_pdf = PdfColumn(PdfBytes)
               ELSE store' = store]_vars

\* C19, amended: check_order_status for a code found at the marketplace returns the
\* status, state and label URL found, whether or not a label download succeeds,
\* unless the Store write raises, and then it returns None. It awaits a download only
\* when it found a label URL and the Store held no PDF for the code. It changes the
\* Store only when that download succeeded, the Store then holds a record of the
\* code and the write does not raise: that record, and nothing else, gets the URL and
\* the PDF; no record is created. In every other case the Store is as it was.
C19_StatusQueryFrameAmended ==
    [][/\ (inflight.op = "none" /\ inflight'.op = "check_order_status") =>
            /\ store' = store
            /\ inflight'.url # None
            /\ inflight'.url = remote[inflight'.code].kd_waybill
            /\ ~HasCachedPdf(store, inflight'.code)
       /\ StatusReturned =>
            LET c == ret'.code
                seen == IF StatusDownloadEnded THEN inflight
                        ELSE [status |-> remote[c].status, state |-> remote[c].state,
                              url |-> remote[c].kd_waybill]
                writes == StatusDownloadEnded /\ glitches' = glitches /\ c \in DOMAIN store
            IN  /\ IF faults' = faults
                   THEN ret'.value = seen.status /\ ret'.state = seen.state
                        /\ ret'.url = seen.url
                   ELSE ret'.value = None /\ writes
                /\ IF writes /\ faults' = faults
                   THEN store' = [store EXCEPT ![c].waybill_url = inflight.url,
                                               ![c].waybill_pdf = PdfColumn(PdfBytes)]
                   ELSE store' = store
                /\ ~StatusDownloadEnded => (seen.url = None \/ HasCachedPdf(store, c))]_vars

\* check_order_status returned the status after it downloaded a label: the record
\* has the URL and the PDF
C19_Witness ==
    /\ ret.op = "check_order_status" /\ ret.requests = 2 /\ ret.value # None
    /\ ret.url # None
    /\ ret.code \in DOMAIN store
    /\ store[ret.code].waybill_url = ret.url
    /\ store[ret.code].waybill_pdf = PdfColumn(PdfBytes)

LabelDownloads == {"check_order_status", "download_and_send_waybill"}

\* the step starts a label download for code c: the pass begins to assemble a listed
\* order that has a label URL, or a handler goes on to await its download
DownloadStarts(c) ==
    \/ /\ pc' = "assemble" /\ (pc # "assemble" \/ idx' # idx)
       /\ listing'[idx'].code = c /\ listing'[idx'].waybill # None
    \/ /\ inflight' # inflight /\ inflight'.op \in LabelDownloads /\ inflight'.code = c

\* the step writes downloaded bytes to the record of code c: a download ended, it
\* and the Store write that follows it did not fail, and the code has a record
PdfWritten(c) ==
    /\ glitches' = glitches /\ faults' = faults
    /\ c \in DOMAIN store'
    /\ \/ AssembleDoneStep /\ listing[idx].code = c /\ listing[idx].waybill # None
       \/ /\ inflight.op \in LabelDownloads /\ inflight'.op # inflight.op
          /\ inflight.code = c /\ c \in DOMAIN store

\* C18: a record's cached PDF is written together with the label URL it was
\* downloaded from, no download is started for a code whose record holds a cached
\* copy, and no step writes downloaded bytes over a cached copy.
C18_CachedCopyIsKept ==
    [][\A c \in Codes :
        /\ DownloadStarts(c) => ~HasCachedPdf(store', c)
        /\ PdfWritten(c) =>
              /\ ~HasCachedPdf(store, c)
              /\ store'[c].waybill_pdf = PdfColumn(PdfBytes)
              /\ store'[c].waybill_url = UrlOf(c)]_vars

\* C21: a Store write failure while an observed order is persisted does not leave a
\* partial record behind: when a pass has sent its notifications, every order of its
\* batch that has a record has it whole, with the line items of the observation and
\* with non-null notified_at.
C21_NoPartialRecord ==
    [][(pc = "notify" /\ pc' = "idle") =>
        \A k \in 1..Len(new_orders) :
            LET oi == new_orders[k]
                c == oi.code
            IN  c \in DOMAIN store' =>
                    /\ items_getter(store'[c]) = oi.items
                    /\ store'[c].notified_at # None]_vars

CodesOf(batch) == [k \in 1..Len(batch) |-> batch[k].code]

\* s can be obtained from t by leaving elements out
RECURSIVE IsSubsequence(_, _)
IsSubsequence(s, t) ==
    IF s = <<>> THEN TRUE
    ELSE IF t = <<>> THEN FALSE
    ELSE IF Head(s) = Head(t) THEN IsSubsequence(Tail(s), Tail(t))
    ELSE IsSubsequence(s, Tail(t))

NoDuplicates(s) == \A i, j \in 1..Len(s) : s[i] = s[j] => i = j

\* C27: while get_new_orders goes through the listing, and when it returns, the
\* batch is a subsequence of the listing response: its orders are listed orders, in
\* the relative order of the listing, each of them once.
C27_BatchFollowsListing ==
    [][pc = "assemble" =>
        /\ IsSubsequence(CodesOf(new_orders'), CodesOf(listing))
        /\ NoDuplicates(CodesOf(new_orders'))
        /\ \A k \in 1..Len(new_orders') :
              \E i \in 1..Len(listing) :
                  /\ listing[i].code = new_orders'[k].code
                  /\ listing[i].id = new_orders'[k].id
                  /\ listing[i].status = new_orders'[k].status]_vars

\* get_new_orders returned both orders of a listing that listed c2 before c1
C27_Witness ==
    /\ pc = "notify"
    /\ CodesOf(new_orders) = <<"c2", "c1">>

\* the batch holds an order of code c whose observed status is one of those given
ObservedIn(batch, c, statuses) ==
    \E k \in 1..Len(batch) : batch[k].code = c /\ batch[k].status \in statuses

\* C28: an order the pass observes for the first time with status COMPLETED,
\* CANCELLED or CANCELLING, or with state ARCHIVE, is not put in the batch and,
\* unless a Store write fails in the step, is saved with the observed status and
\* state and marked notified; and every notification that reaches the chat is that
\* of an order of the batch observed with status APPROVED_BY_BANK,
\* ACCEPTED_BY_MERCHANT, ASSEMBLE or PICKUP.
C28_CompletedSavedNotNotified ==
    [][/\ (AssembleDoneStep /\ (listing[idx].status \in {"COMPLETED", "CANCELLED", "CANCELLING"}
                                \/ listing[idx].state = "ARCHIVE")) =>
            LET c == listing[idx].code
            IN  /\ new_orders' = new_orders
                /\ batched' = batched
                /\ faults' = faults =>
                      /\ HasNotifiedRecord(store', c)
                      /\ store'[c].status = listing[idx].status
                      /\ store'[c].state = listing[idx].state
       /\ \A c \in chat' \ chat :
            ObservedIn(new_orders, c, {"APPROVED_BY_BANK", "ACCEPTED_BY_MERCHANT",
                                       "ASSEMBLE", "PICKUP"})]_vars

\* a pass observed a cancelled order for the first time: the order has a record,
\* marked notified, and was in no batch and is not in the chat
C28_Witness ==
    \E c \in Codes :
        /\ HasNotifiedRecord(store, c)
        /\ store[c].status = "CANCELLED"
        /\ c \notin batched
        /\ c \notin chat
        /\ passes >= 1

\* a pass put an order in its batch whose status is in none of the program's lists
\* and has ended without sending its notification
C28_WitnessFiltered ==
    \E c \in Codes :
        /\ pc = "idle"
        /\ c \in batched
        /\ ObservedIn(new_orders, c, {"RETURNED"})
        /\ c \in DOMAIN store /\ store[c].status = "RETURNED"
        /\ c \notin chat

\* C25: a lifecycle action that writes a status to a record writes
\* ACCEPTED_BY_MERCHANT to a record whose status was APPROVED_BY_BANK, or ASSEMBLE
\* to a record whose status was ACCEPTED_BY_MERCHANT; it changes no other record's
\* status.
C25_StatusFollowsMachine ==
    [][ret'.op \in LifecycleOps =>
        \A c \in DOMAIN store :
            LET old == store[c].status
                new == store'[c].status
                written == c = ret'.code /\ ret'.gw = "ok" /\ faults' = faults
            IN  /\ c \in DOMAIN store'
                /\ ~written => new = old
                /\ (written /\ ret'.op = "accept_order") =>
                        (old = "APPROVED_BY_BANK" /\ new = "ACCEPTED_BY_MERCHANT")
                /\ (written /\ ret'.op = "create_waybill") =>
                        (old = "ACCEPTED_BY_MERCHANT" /\ new = "ASSEMBLE")]_vars

C24_AtMostTwoQueries ==
    (ret.op = "create_waybill" /\ ret.gw = "ok") =>
        (ret.requests = 1 /\ ret.queries \in {1, 2})

\* the transition request of create_waybill succeeded and the call queried twice
C24_PollingReached ==
    ret.op = "create_waybill" /\ ret.gw = "ok" /\ ret.queries = 2

\* ---------------------------------------------------------------------------
\* C29: the bulk clear is executed only after an administrator sent /clear_db,
\* pressed the confirmation button and sent /clear_db again: whenever
\* clear_database runs, the prompt has been confirmed by its button (and so it
\* was not cancelled, and the command was not sent just once after the prompt).
C29_ClearOnlyAfterButton ==
    [][ret'.op = "clear_database" => clearPrompt = "confirmed"]_vars

\* the part of C29 the code keeps: clear_database runs only for an
\* administrator whose own confirmation is pending, so never on the first
\* /clear_db and never after that administrator pressed a cancel button
C29_ClearNeedsPending ==
    [][ret'.op = "clear_database" =>
        /\ ret'.user \in admin_ids
        /\ pending_confirmations[ret'.user] = "clear_db"]_vars

C29_ClearedAfterButton ==
    /\ ret.op = "clear_database"
    /\ ret.value = "count"
    /\ clearPrompt = "confirmed"

\* ---------------------------------------------------------------------------
\* C30: whatever a user who is not in admin_ids sends, neither the bulk clear
\* nor a cancellation is executed for that user, and the handlers reserved to
\* administrators leave the Store, the remote orders, every confirmation and
\* the prompt as they were.
AdminOnlyOps == {"clear_database", "cancel_order"}

AdminOnlyHandlers ==
    AdminOnlyOps \cup {"clear_db_command", "cancel_order_command", "cancel_order_select",
                       "cancel_reason", "confirm_clear_db"}

C30_NonAdminExecutesNothing ==
    [][ret'.user \in Users \ admin_ids =>
        /\ ret'.op \notin AdminOnlyOps
        /\ ret'.op \in AdminOnlyHandlers =>
                /\ store' = store
                /\ remote' = remote
                /\ clears' = clears
                /\ pending_confirmations' = pending_confirmations
                /\ clearPrompt' = clearPrompt]_vars

\* a user who is no administrator sent /clear_db while the confirmation of the
\* administrator was pending and the Store held both records
C30_Witness ==
    /\ ret.op = "clear_db_command"
    /\ ret.user \notin admin_ids
    /\ pending_confirmations["admin"] = "clear_db"
    /\ \A c \in Codes : HasNotifiedRecord(store, c)

\* such a user pressed a cancellation reason of an order the chat shows
C30_WitnessCancel ==
    /\ ret.op = "cancel_reason"
    /\ ret.user \notin admin_ids
    /\ pending_confirmations["admin"] = "cancel_order"

\* ---------------------------------------------------------------------------
\* C22: get_orders called without bounds sends, as lower bound, exactly the
\* instant 14 days before the clock reading it took and, as upper bound, the
\* instant of its clock reading; a bound given by the caller is sent unchanged.
C22_DefaultWindow ==
    (frame.op = "get_orders" /\ frame.at = "sent") =>
        /\ frame.from_arg = Missing => frame.ge = Some(Val(frame.t1) - 14 * Day)
        /\ frame.to_arg = Missing => frame.le = frame.t2
        /\ frame.from_arg # Missing => frame.ge = frame.from_arg
        /\ frame.to_arg # Missing => frame.le = frame.to_arg

\* the parts of C22 the code keeps on every host: the upper bound and the
\* bounds of the caller
C22_UpperAndCallerBounds ==
    (frame.op = "get_orders" /\ frame.at = "sent") =>
        /\ frame.to_arg = Missing => frame.le = frame.t2 /\ frame.t2 # Missing
        /\ frame.from_arg # Missing => frame.ge = frame.from_arg
        /\ frame.to_arg # Missing => frame.le = frame.to_arg

\* and the lower bound on a host whose offset never changes; on the other
\* hosts it is off by at most the size of the change
C22_LowerOnSteadyHost ==
    (frame.op = "get_orders" /\ frame.at = "sent" /\ frame.from_arg = Missing) =>
        LET exact == Val(frame.t1) - 14 * Day
            shift == frame.zone.after - frame.zone.before
            off   == Val(frame.ge) - exact
        IN  /\ frame.zone.before = frame.zone.after => off = 0
            /\ off \in {0, shift, 0 - shift}

\* a request with both default bounds was sent from a host whose offset changed
\* in the 14 days before the clock was read
C22_DefaultsSent ==
    /\ frame.op = "get_orders" /\ frame.at = "sent"
    /\ frame.from_arg = Missing /\ frame.to_arg = Missing
    /\ frame.zone.name = "back"
    /\ frame.t1 = Some(3 * Day)

\* ---------------------------------------------------------------------------
\* C23: a list of line items stored through the Order.items setter and read
\* back through the getter is the list that was stored: as many items, each
\* with the same keys and the same value under every key; the empty list comes
\* back as the empty list.
C23_ItemsRoundTrip ==
    (frame.op = "items" /\ frame.at = "got") =>
        /\ Len(frame.got) = Len(frame.value)
        /\ \A i \in 1..Len(frame.value) :
                /\ DOMAIN frame.got[i] = DOMAIN frame.value[i]
                /\ \A key \in DOMAIN frame.value[i] :
                        frame.got[i][key] = frame.value[i][key]

\* two items, the first with an empty description, went through the JSON text
\* of the record and came back
C23_Witness ==
    /\ frame.op = "items" /\ frame.at = "got"
    /\ Len(frame.value) = 2
    /\ frame.value[1].description = ""
    /\ frame.value[1].quantity # frame.value[2].quantity
    /\ ~store["c1"].items_json.null
    /\ Len(store["c1"].items_json.text) = 45

\* the empty list is stored as NULL and read back as the empty list
C23_WitnessEmpty ==
    /\ frame.op = "items" /\ frame.at = "got"
    /\ frame.value = <<>>
    /\ store["c1"].items_json.null

\* ---------------------------------------------------------------------------
\* C26: while one order is assembled, get_delivery_point is called at most
\* once, and only in the turn of the first entry, also when the call fails; an
\* order with no entry gets no lookup and the placeholder warehouse.
C26_OneWarehouseLookup ==
    frame.op = "info" =>
        /\ Len(frame.lookups) <= 1
        /\ \A j \in 1..Len(frame.lookups) : frame.lookups[j].index = 1
        /\ frame.k > 1 => Len(frame.lookups) = 1
        /\ (frame.at = "done" /\ frame.items_data = <<>>) =>
                /\ frame.lookups = <<>>
                /\ frame.result[1].warehouse_name = PlaceholderWarehouse

\* the order_info of the loop is the one the passes of the monitoring use
C26_LoopAgreesWithSummary ==
    (frame.op = "info" /\ frame.at = "done"
        /\ frame.items_data = EntriesOf(frame.order.code)) =>
            frame.result[1] = _get_full_order_info(frame.order, frame.failed)

\* an order with several entries was assembled and its only lookup failed
C26_Witness ==
    /\ frame.op = "info" /\ frame.at = "done"
    /\ Len(frame.items_data) = 3
    /\ frame.lookups = <<[index |-> 1, ok |-> FALSE]>>
    /\ frame.result[1].warehouse_name = PlaceholderWarehouse

\* an order with no entry was assembled
C26_WitnessNoEntry ==
    /\ frame.op = "info" /\ frame.at = "done"
    /\ frame.items_data = <<>>
    /\ frame.result[1].items = <<>>

\* the status column of the Store, row by row
StatusColumn(st) == [c \in DOMAIN st |-> st[c].status]

\* the statuses on which handle_create_waybill refuses to form a label
RefusedStatuses == {"APPROVED_BY_BANK", "ASSEMBLE", "COMPLETED", "CANCELLED", "CANCELLING"}

\* a step of handle_create_waybill on a path that does not reach create_waybill
RefusingStep ==
    \/ ret'.op \in {"check_order_status", "download_and_send_waybill"}
    \/ inflight' # inflight

\* C31: handle_create_waybill calls create_waybill only when the status just read
\* remotely is none of APPROVED_BY_BANK, ASSEMBLE, COMPLETED, CANCELLED, CANCELLING
\* and the order has no label URL; on every other path of the handler neither the
\* remote order nor the status column of the Store changes.
C31_LabelOnlyWhenAllowed ==
    [][/\ ret'.op = "create_waybill" =>
            /\ remote[ret'.code].status \notin RefusedStatuses
            /\ remote[ret'.code].kd_waybill = None
       /\ RefusingStep =>
            /\ remote' = remote
            /\ StatusColumn(store') = StatusColumn(store)]_vars

\* create_waybill was called for an accepted order that has no label yet
C31_Witness ==
    /\ ret.op = "create_waybill"
    /\ remote[ret.code].status = "ACCEPTED_BY_MERCHANT"
    /\ remote[ret.code].kd_waybill = None

\* the handler refused an order that is not accepted yet; nothing was requested
C31_Refused ==
    /\ ret.op = "check_order_status"
    /\ ret.gw = "ok"
    /\ ret.value = "APPROVED_BY_BANK"

\* the order was APPROVED_BY_BANK at first and only an accept request has changed
\* the remote orders since; its record holds the status accept_order wrote, so that
\* accept_order has returned True for the code
AcceptedByUser(c) ==
    /\ changes = 0
    /\ InitRemote[c].status = "APPROVED_BY_BANK"
    /\ remote[c].status = "ACCEPTED_BY_MERCHANT"
    /\ c \in DOMAIN store
    /\ store[c].status = "ACCEPTED_BY_MERCHANT"

\* C32: once accept_order has returned True for a code, no later write of the sync
\* pass sets the status of its record back to APPROVED_BY_BANK.
C32_AcceptNotUndone ==
    [][\A c \in Codes :
          (AcceptedByUser(c) /\ c \in DOMAIN store')
              => store'[c].status # "APPROVED_BY_BANK"]_vars

\* accept_order returned True for an order while a sync pass that had listed it
\* as APPROVED_BY_BANK was waiting for the details of the order
C32_Witness ==
    /\ ret.op = "accept_order"
    /\ ret.value = "True"
    /\ pc = "assemble"
    /\ idx <= Len(listing)
    /\ listing[idx].code = ret.code
    /\ listing[idx].status = "APPROVED_BY_BANK"
    /\ AcceptedByUser(ret.code)

----------------------------------------------------------------------------
(* The sync pass when a lookup of the de-duplication marker fails *)

\* what get_new_orders leaves behind when is_order_notified raised for an order;
\* gw: the outcome of the gateway request that came before the lookup
LookupRaised(order, gw) ==
    [NoRet EXCEPT !.op = "get_new_orders", !.code = order.code, !.value = "raised",
                  !.gw = gw]

\* the loop of get_new_orders goes on at index i of orders_data with Store st, having
\* used nf Store faults and ev disturbances in this step: it skips the notified
\* orders, then is_order_notified raises for order k (the query fails; the method
\* has no except clause). The exception leaves the loop; the except clause of
\* get_new_orders logs it and returns [], and check_new_orders, given an empty
\* list, saves and sends nothing.
Abort(orders_data, st, i, nf, ev, gw) ==
    /\ nf + 1 <= MaxStoreFaults
    /\ ev + 1 <= EventsLeft
    /\ faults' = nf + 1
    /\ \E k \in i..Len(orders_data) :
        /\ \A j \in i..(k - 1) : is_order_notified(st, orders_data[j].code)
        /\ skipped' = {orders_data[j] : j \in i..(k - 1)}
        /\ ret' = LookupRaised(orders_data[k], gw)
    /\ store' = st
    /\ pc' = "idle" /\ idx' = 0 /\ listing' = <<>> /\ new_orders' = <<>>

\* check_new_orders starts and a lookup of the marker raises before any order is
\* awaited
SyncListAborted ==
    /\ Quiet
    /\ UNCHANGED <<inflight, chat>>
    /\ UNCHANGED <<pending_confirmations, clearPrompt, frame>>
    /\ pc = "idle"
    /\ passes < MaxPasses
    /\ passes' = passes + 1
    /\ UNCHANGED <<remote, acceptBtn, batched, clears, glitches, changes>>
    /\ \E resp \in Listings : Abort(resp, store, 1, faults, 0, "ok")

\* get_order_items raised for listing[idx]; the loop goes on and a lookup of the
\* marker raises for a later order
AssembleFailedAborted ==
    /\ Quiet
    /\ UNCHANGED <<inflight, chat>>
    /\ UNCHANGED <<pending_confirmations, clearPrompt, frame>>
    /\ pc = "assemble"
    /\ UNCHANGED <<batched, glitches>>
    /\ Abort(listing, store, idx + 1, faults, 0, "failed")
    /\ UNCHANGED <<remote, acceptBtn, passes, clears, changes>>

\* listing[idx] is saved, marked and appended to new_orders; the loop goes on and a
\* lookup of the marker raises for a later order, so that new_orders is never
\* returned
AssembleDoneAborted ==
    /\ Quiet
    /\ UNCHANGED <<inflight, chat>>
    /\ UNCHANGED <<pending_confirmations, clearPrompt, frame>>
    /\ pc = "assemble"
    /\ LET order == listing[idx]
       IN  \E failed \in GlitchSets(order), f1 \in FaultChoices, f2 \in FaultChoices :
                LET order_info == _get_full_order_info(order, failed)
                    s1 == save_order_to_db(store, order_info, f1)
                    m  == mark_as_notified(s1, order.code, f2)
                    nf == faults + (IF f1 THEN 1 ELSE 0) + (IF f2 THEN 1 ELSE 0)
                IN  /\ f2 => m.raised
                    /\ glitches' = glitches + Cardinality(failed)
                    /\ Abort(listing, m.store, idx + 1, nf,
                             Cardinality(failed) + (nf - faults), "ok")
    /\ UNCHANGED <<remote, acceptBtn, batched, passes, clears, changes>>

NextAbort ==
    \/ Next
    \/ SyncListAborted
    \/ AssembleFailedAborted
    \/ AssembleDoneAborted

SpecAbort == Init /\ [][NextAbort]_vars

\* get_new_orders returns in this step
PassReturns == pc = "assemble" /\ pc' # "assemble"

\* the non-completed orders get_new_orders has saved and whose record is marked
\* when the call returns in this step
SavedAndMarked ==
    {c \in Codes :
        /\ \/ InBatch(new_orders, c)
           \/ /\ c = listing[idx].code
              /\ listing[idx].status \notin {"COMPLETED", "CANCELLED", "CANCELLING"}
              /\ listing[idx].state # "ARCHIVE"
              /\ ~HasNotifiedRecord(store, c)
        /\ HasNotifiedRecord(store', c)}

\* C33: every non-completed order that get_new_orders saves and marks notified is in
\* the list the same call returns, also when processing a later order of the listing
\* raises.
C33_MarkedIsReturned ==
    [][PassReturns => \A c \in SavedAndMarked : InBatch(new_orders', c)]_vars

\* get_new_orders returned [] because the lookup of a later order raised, while the
\* first order of the listing is recorded as notified
C33_Witness ==
    /\ ret.op = "get_new_orders"
    /\ ret.value = "raised"
    /\ \E c \in Codes \ {ret.code} : HasNotifiedRecord(store, c) /\ c \notin chat

\* C34: a step puts an order in the notification batch only if the Store then holds
\* its record with non-null notified_at, and a code that was in a batch before is
\* put in a batch again only after a bulk clear, never because a Store write failed.
C34_BatchedIsRecorded ==
    [][\A c \in Appended : /\ HasNotifiedRecord(store', c)
                           /\ c \in batched => clears > 0]_vars

\* a pass is about to notify an order of which the Store holds no marked record,
\* after Store writes failed and without any bulk clear
C34_Witness ==
    /\ pc = "notify"
    /\ faults > 0
    /\ clears = 0
    /\ \E k \in 1..Len(new_orders) : ~HasNotifiedRecord(store, new_orders[k].code)

\* check_new_orders sends a notification in this step
SendStep == pc = "notify" /\ idx' # idx

\* check_new_orders has saved and marked the batch and turns to its notifications
SendingStarts == pc # "notify" /\ pc' = "notify"

\* the codes put in a batch before whose notification did not reach the chat
Undelivered == batched \ chat

C36_ClearResetsDedup ==
    [][/\ BulkClearStep => \A c \in Codes : ~HasNotifiedRecord(store', c)
       /\ \A o \in skipped' : HasNotifiedRecord(store, o.code)
       /\ (AssembleDoneStep /\ ~is_completed(listing[idx])) =>
            /\ InBatch(new_orders', listing[idx].code)
            /\ HasNotifiedRecord(store', listing[idx].code) \/ faults' > faults]_vars

\* an order that was notified before the bulk clear is again in the batch of the
\* next pass, saved and marked anew
C36_Witness ==
    /\ clears = 1
    /\ faults = 0
    /\ passes = 2
    /\ pc = "notify"
    /\ idx = 1
    /\ Len(new_orders) = 1
    /\ new_orders[1].code \in chat
    /\ HasNotifiedRecord(store, new_orders[1].code)

----------------------------------------------------------------------------
(* The sync pass over a marketplace that holds more matching orders than one page *)

\* page[size] of the get_orders request, min(page_size, 100) in the code
PageSize == 1

\* the order in which the marketplace lists its orders
MarketOrder == <<"c1", "c2">>

\* the status filter get_new_orders passes to get_orders
ListedStatuses == {"APPROVED_BY_BANK", "ACCEPTED_BY_MERCHANT"}

Matches(rem, c) == rem[c].status \in ListedStatuses

\* the orders of s that match the filter, in the order of s
RECURSIVE Matching(_, _)
Matching(rem, s) ==
    IF s = <<>> THEN <<>>
    ELSE IF Matches(rem, Head(s)) THEN <<Head(s)>> \o Matching(rem, Tail(s))
    ELSE Matching(rem, Tail(s))

\* the response to get_orders(status=[...]): get_new_orders passes no page_number,
\* so the request asks for page 0 of PageSize orders, and no other page is requested
Page0(rem) ==
    LET m == Matching(rem, MarketOrder)
    IN  [k \in 1..Min(PageSize, Len(m)) |-> Summary(rem, m[k])]

\* check_new_orders starts, as often as the job queue runs it: get_new_orders
\* receives page 0 of the matching orders
PageList ==
    /\ Quiet
    /\ UNCHANGED <<inflight, chat>>
    /\ UNCHANGED <<pending_confirmations, clearPrompt, frame>>
    /\ pc = "idle"
    /\ UNCHANGED <<remote, acceptBtn, batched, passes, clears, glitches, changes>>
    /\ Proceed(Page0(remote), store, <<>>, 1, faults)
    /\ ret' = NoRet

\* check_new_orders starts and get_orders raises: get_new_orders returns []
PageListFailed ==
    /\ Quiet
    /\ UNCHANGED <<inflight, chat>>
    /\ UNCHANGED <<pending_confirmations, clearPrompt, frame>>
    /\ pc = "idle"
    /\ UNCHANGED <<remote, acceptBtn, batched, passes, clears, glitches, changes>>
    /\ ret' = [op |-> "get_orders", code |-> None, value |-> "raised",
               url |-> None, gw |-> "failed", requests |-> 1,
               state |-> None, count |-> 0, queries |-> 0, user |-> None]
    /\ pc' = "idle" /\ idx' = 0 /\ new_orders' = <<>> /\ skipped' = {}
    /\ listing' = <<>>
    /\ UNCHANGED <<store, faults>>

NextPages ==
    \/ PageList
    \/ PageListFailed
    \/ AssembleFailed
    \/ AssembleDone
    \/ SyncNotify
    \/ ClearDb
    \/ \E c \in Codes : RemoteChange(c)
    \/ Return

\* the job queue keeps running check_new_orders and every await of a pass ends;
\* the listing request and the item request of an order succeed again and again
FairPages ==
    /\ WF_vars(PageList \/ PageListFailed)
    /\ SF_vars(PageList)
    /\ WF_vars(AssembleFailed \/ AssembleDone)
    /\ SF_vars(AssembleDone)
    /\ WF_vars(SyncNotify)
    /\ WF_vars(Return)

SpecPages == Init /\ [][NextPages]_vars /\ FairPages

\* the order has a record in the Store and its notification was handed to the chat
SavedAndNotified(c) == c \in DOMAIN store /\ c \in batched

\* the order matches the filter of get_new_orders and is not archived
KeepsMatching(c) == Matches(remote, c) /\ remote[c].state # "ARCHIVE"

\* C37: every remote order that keeps status APPROVED_BY_BANK or ACCEPTED_BY_MERCHANT
\* is eventually saved to the Store and notified, while passes keep running and the
\* sub-calls eventually succeed, also when more orders match than one page holds.
C37_EveryMatchingNotified ==
    \A c \in Codes : ([]KeepsMatching(c)) => <>SavedAndNotified(c)

\* more orders match the filter than a page holds, and the first of them has been
\* saved and notified
C37_Witness ==
    /\ Len(Matching(remote, MarketOrder)) > PageSize
    /\ SavedAndNotified(MarketOrder[1])
    /\ MarketOrder[1] \in chat
    /\ pc = "idle"

\* the calls of the order lifecycle that write the Store by update_order_status or
\* update_order_waybill
LifecycleCalls ==
    {"accept_order", "create_waybill", "check_order_status", "download_and_send_waybill"}

\* C38: the lifecycle calls never create a Store record: a step of accept_order,
\* create_waybill, check_order_status or of the label download leaves the set of
\* recorded codes as it was, and leaves the whole Store as it was when the code it
\* is about has no record.
C38_LifecycleCreatesNoRecord ==
    [][ret'.op \in LifecycleCalls =>
        /\ DOMAIN store' = DOMAIN store
        /\ ret'.code \notin DOMAIN store => store' = store]_vars

\* accept_order succeeded at the gateway for a code of which the Store holds no
\* record, and the Store still holds none
C38_Witness ==
    /\ ret.op = "accept_order"
    /\ ret.gw = "ok"
    /\ remote[ret.code].status = "ACCEPTED_BY_MERCHANT"
    /\ ret.code \notin DOMAIN store

\* check_order_status downloaded the label of a code of which the Store holds no
\* record, and nothing was cached
C38_NoRecordNoCache ==
    /\ ret.op = "check_order_status"
    /\ ret.requests = 2
    /\ ret.code \notin DOMAIN store

----------------------------------------------------------------------------
(* The label downloads when the marketplace answers 200 with a body that is no PDF *)

\* a response body that is not a PDF (a login or an error page)
HtmlBytes == "<html>"

\* pdf_content.startswith(b'%PDF')
startswith_PDF(bytes) == Len(bytes) >= 4 /\ SubSeq(bytes, 1, 4) = "%PDF"

\* OrderService._download_waybill_pdf, given the body of a 200 response (None: the
\* request failed): a body without the PDF signature is refused
_download_waybill_pdf(body) ==
    IF body = None THEN None
    ELSE IF ~startswith_PDF(body) THEN None
    ELSE body

\* the download check_order_status awaited ends with a 200 response whose body is
\* no PDF: _download_waybill_pdf returns None and nothing is written
StatusDownloadedBody ==
    /\ Quiet
    /\ inflight.op = "check_order_status"
    /\ GlitchesLeft > 0
    /\ LET c == inflight.code
           r == check_order_status_downloaded(store, inflight,
                                              _download_waybill_pdf(HtmlBytes), FALSE)
       IN  /\ store' = r.store
           /\ ret' = [op |-> "check_order_status", code |-> c, value |-> r.value,
                      url |-> r.url, gw |-> "ok", requests |-> 2, state |-> r.state,
                      count |-> 0, queries |-> 0, user |-> None]
           /\ inflight' = IF r.value = None THEN NoHandler
                          ELSE [inflight EXCEPT !.op = "handle_create_waybill"]
    /\ glitches' = glitches + 1
    /\ skipped' = {}
    /\ UNCHANGED chat
    /\ UNCHANGED <<pending_confirmations, clearPrompt, frame>>
    /\ UNCHANGED <<remote, pc, listing, idx, new_orders, acceptBtn, batched, passes, clears,
                   faults, changes>>

\* the download download_and_send_waybill awaited ends with a 200 response whose
\* body is no PDF (the handler requests the URL itself, without the headers and
\* without the check of _download_waybill_pdf): response.content is passed to
\* update_order_waybill and sent to the chat
BotDownloadedBody ==
    /\ Quiet
    /\ inflight.op = "download_and_send_waybill"
    /\ \E fault \in FaultChoices :
        LET c == inflight.code
            r == download_and_send_waybill(store, c, inflight.url, HtmlBytes, fault)
        IN  /\ fault => c \in DOMAIN store
            /\ store' = r.store
            /\ faults' = faults + (IF fault THEN 1 ELSE 0)
            /\ ret' = [op |-> "download_and_send_waybill", code |-> c, value |-> r.value,
                       url |-> inflight.url, gw |-> "none", requests |-> 1,
                       state |-> None, count |-> 0, queries |-> 0, user |-> None]
    /\ inflight' = NoHandler
    /\ skipped' = {}
    /\ UNCHANGED chat
    /\ UNCHANGED <<pending_confirmations, clearPrompt, frame>>
    /\ UNCHANGED <<remote, pc, listing, idx, new_orders, acceptBtn, batched, passes, clears,
                   glitches, changes>>

NextBody ==
    \/ NextLabel
    \/ StatusDownloadedBody
    \/ BotDownloadedBody

SpecBody == Init /\ [][NextBody]_vars

\* C39: every label cached in waybill_pdf passed the %PDF signature check: no
\* operation, download_and_send_waybill included, stores a body that is no PDF.
C39_CachedLabelIsPdf ==
    \A c \in DOMAIN store :
        LET bytes == waybill_pdf_bytes_getter(store[c])
        IN  bytes # None => startswith_PDF(bytes)

\* download_and_send_waybill has written the body it downloaded to the record of
\* the order and sent it to the chat
C39_Witness ==
    /\ ret.op = "download_and_send_waybill"
    /\ ret.value = "sent"
    /\ HasCachedPdf(store, ret.code)

=============================================================================
